---- MODULE Spec2Model ----
(***************************************************************************)
(* A model of pyvista/themes.py: the theme configuration classes, their    *)
(* validated setters, the generic dict conversion and equality of          *)
(* _ThemeConfig, and the theme loading functions.                          *)
(*                                                                         *)
(* Python objects live in a heap and are referred to by identity, so that  *)
(* two themes holding the same nested group is a state of the model.       *)
(* Numbers are counted in thousandths (1000 is 1.0), which represents      *)
(* every numeric literal of the file exactly.                              *)
(***************************************************************************)
EXTENDS Integers, Sequences, FiniteSets, TLC

VARIABLES heap, vars, files, env, last, steps, pc, snap

allvars == <<heap, vars, files, env, last, steps, pc, snap>>

(***************************************************************************)
(* Bounds of the model.                                                    *)
(***************************************************************************)
\* the number of operations of one behaviour
MaxSteps == 2

(***************************************************************************)
(* Python values.  Every value is a tuple whose first element is its type. *)
(***************************************************************************)
None == <<"None">>
Bool(b) == <<"bool", b>>
Num(m) == <<"num", m>>
Str(s) == <<"str", s>>
Tuple(s) == <<"tuple", s>>
\* a tuple of three integers, as the colours are written
RGB(r, g, b) == <<"tuple", <<<<"num", r * 1000>>, <<"num", g * 1000>>, <<"num", b * 1000>> >> >>
Ref(i) == <<"ref", i>>
ColorObj(c) == <<"Color", c>>
RGBADict(c) == <<"rgba", c>>
\* a list display or JSON array, and a dict display or JSON object: a mapping is
\* an ordered sequence of <<key, value>> pairs
ListV(s) == <<"list", s>>
Dict(pairs) == <<"dict", pairs>>
Callable(n) == <<"callable", n>>
\* the keys of a mapping, d[k], and del d[k]
Keys(d) == {d[2][i][1] : i \in DOMAIN d[2]}
Lookup(d, k) == LET i == CHOOSE j \in DOMAIN d[2] : d[2][j][1] = k IN d[2][i][2]
DelKey(d, k) == Dict(SelectSeq(d[2], LAMBDA p : p[1] # k))
\* d[k] = v for a key d has
SetKey(d, k, v) == Dict([i \in DOMAIN d[2] |-> IF d[2][i][1] = k THEN <<k, v>> ELSE d[2][i]])
NaN == <<"nan">>

TypeOf(v) == v[1]
IsRef(v) == TypeOf(v) = "ref"
IsNumber(v) == TypeOf(v) \in {"num", "bool"}

\* bool is a subclass of int: True is 1 and False is 0
NumVal(v) ==
    IF TypeOf(v) = "bool" THEN (IF v[2] THEN 1000 ELSE 0) ELSE v[2]

NoExc == "none"
Ok(v) == [val |-> v, exc |-> NoExc]
Raise(keep, e) == [val |-> keep, exc |-> e]

(***************************************************************************)
(* Builtin conversions float(), int() and bool().                          *)
(***************************************************************************)
\* the numeric strings the model passes, with their values
NumericStrings == [s \in {"2", "0.5"} |-> IF s = "2" THEN 2000 ELSE 500]

PyFloat(v) ==
    CASE IsNumber(v) -> Ok(Num(NumVal(v)))
      [] TypeOf(v) = "nan" -> Ok(NaN)
      [] TypeOf(v) = "str" ->
            IF v[2] \in DOMAIN NumericStrings
            THEN Ok(Num(NumericStrings[v[2]]))
            ELSE Raise(None, "ValueError")
      [] OTHER -> Raise(None, "TypeError")

Trunc(m) == IF m >= 0 THEN (m \div 1000) * 1000 ELSE -(((-m) \div 1000) * 1000)

PyInt(v) ==
    CASE IsNumber(v) -> Ok(Num(Trunc(NumVal(v))))
      [] TypeOf(v) = "nan" -> Raise(None, "ValueError")
      [] TypeOf(v) = "str" ->
            IF v[2] = "2" THEN Ok(Num(2000)) ELSE Raise(None, "ValueError")
      [] OTHER -> Raise(None, "TypeError")

Truthy(v) ==
    CASE TypeOf(v) = "None" -> FALSE
      [] TypeOf(v) = "bool" -> v[2]
      [] TypeOf(v) = "num" -> v[2] # 0
      [] TypeOf(v) = "str" -> v[2] # ""
      [] TypeOf(v) = "tuple" -> v[2] # <<>>
      [] OTHER -> TRUE

\* the outcome of `v < 0 or v > 1`: "yes", "no", or the exception raised
OutsideUnit(v) ==
    CASE IsNumber(v) -> IF NumVal(v) < 0 \/ NumVal(v) > 1000 THEN "yes" ELSE "no"
      [] TypeOf(v) = "nan" -> "no"
      [] OTHER -> "TypeError"

(***************************************************************************)
(* The collaborators imported from other modules (lines 40-45).  Their     *)
(* contracts: a colour representation is normalised to a canonical colour  *)
(* or rejected; colormap names, font families, jupyter backends,           *)
(* interpolation types and colour cycles are validated.                    *)
(***************************************************************************)
\* colour representations and the canonical colour each denotes
ColorTable ==
    [r \in {Str("white"), Str("w"), Str("#ffffff"), RGB(255, 255, 255),
            Str("black"), Str("k"), Str("tan"), Str("tomato"), Str("seagreen"),
            Str("blue"), Str("mediumblue"), Str("gold"), Str("green"),
            Str("grey"), Str("gray"), Str("darkgray"), Str("paraview"),
            Str("red"), Tuple(<<Num(300), Num(300), Num(300)>>), RGB(110, 113, 117),
            RGB(178, 179, 181)} |->
        CASE r \in {Str("white"), Str("w"), Str("#ffffff"), RGB(255, 255, 255)}
                -> "white"
          [] r \in {Str("black"), Str("k")} -> "black"
          [] r \in {Str("grey"), Str("gray")} -> "grey"
          [] r = Tuple(<<Num(300), Num(300), Num(300)>>) -> "rgb30"
          [] r = RGB(110, 113, 117) -> "rgb110"
          [] r = RGB(178, 179, 181) -> "rgb178"
          [] OTHER -> r[2]]

\* Color(x)
Color(v) ==
    CASE TypeOf(v) = "Color" -> Ok(v)
      [] TypeOf(v) = "rgba" -> Ok(ColorObj(v[2]))
      [] TypeOf(v) \in {"str", "tuple"} ->
            IF v \in DOMAIN ColorTable THEN Ok(ColorObj(ColorTable[v]))
            ELSE Raise(None, "ValueError")
      [] OTHER -> Raise(None, "TypeError")

C(name) == ColorObj(ColorTable[Str(name)])

\* get_cmap_safe(x): needs matplotlib, then validates the name
get_cmap_safe(e, v) ==
    IF ~e.matplotlib THEN Raise(None, "ImportError")
    ELSE IF v \in {Str("viridis"), Str("coolwarm"), Str("jet")} THEN Ok(v)
    ELSE Raise(None, "ValueError")

\* parse_font_family(x)
parse_font_family(v) ==
    IF v \in {Str("arial"), Str("courier"), Str("times")} THEN Ok(v)
    ELSE Raise(None, "ValueError")

\* get_cycler(x): None disables, a name or a list of colours gives a cycler
get_cycler(v) ==
    CASE v = None -> Ok(None)
      [] TypeOf(v) = "cycler" -> Ok(v)
      [] v = Str("default") -> Ok(<<"cycler", "default">>)
      [] v = Str("matplotlib") -> Ok(<<"cycler", "matplotlib">>)
      [] OTHER -> Raise(None, "ValueError")

\* pyvista.jupyter._validate_jupyter_backend(x)
validate_jupyter_backend(v) ==
    IF v \in {Str("trame"), Str("static"), Str("none"), Str("client"), Str("server")}
    THEN Ok(v)
    ELSE Raise(None, "ValueError")

\* InterpolationType.from_any(x).value
InterpolationValue(v) ==
    CASE v \in {Str("flat"), Str("Flat"), Num(0)} -> Ok(Num(0))
      [] v \in {Str("gouraud"), Num(1000)} -> Ok(Num(1000))
      [] v \in {Str("phong"), Str("Phong"), Num(2000)} -> Ok(Num(2000))
      [] v \in {Str("pbr"), Str("PBR"), Num(3000)} -> Ok(Num(3000))
      [] TypeOf(v) \in {"str", "num"} -> Raise(None, "ValueError")
      [] OTHER -> Raise(None, "TypeError")

(***************************************************************************)
(* The classes and their __slots__, in declaration order.                  *)
(***************************************************************************)
LightingSlots ==
    <<"_interpolation", "_metallic", "_roughness", "_ambient", "_diffuse",
      "_specular", "_specular_power", "_emissive">>
DepthPeelingSlots == <<"_number_of_peels", "_occlusion_ratio", "_enabled">>
SilhouetteSlots ==
    <<"_color", "_line_width", "_opacity", "_feature_angle", "_decimate", "_enabled">>
ColorbarSlots == <<"_width", "_height", "_position_x", "_position_y">>
AxesSlots == <<"_x_color", "_y_color", "_z_color", "_box", "_show">>
FontSlots == <<"_family", "_size", "_title_size", "_label_size", "_color", "_fmt">>
SliderStyleSlots ==
    <<"_name", "_slider_length", "_slider_width", "_slider_color", "_tube_width",
      "_tube_color", "_cap_opacity", "_cap_length", "_cap_width">>
SliderSlots == <<"_classic", "_modern">>
TrameSlots ==
    <<"_interactive_ratio", "_still_ratio", "_jupyter_server_name",
      "_jupyter_server_port", "_server_proxy_enabled", "_server_proxy_prefix",
      "_default_mode", "_enable_vtk_warnings">>
DefaultThemeSlots ==
    <<"_name", "_background", "_jupyter_backend", "_trame", "_full_screen",
      "_window_size", "_image_scale", "_camera", "_notebook", "_font",
      "_auto_close", "_cmap", "_color", "_color_cycler", "_above_range_color",
      "_below_range_color", "_nan_color", "_edge_color", "_line_width",
      "_point_size", "_outline_color", "_floor_color", "_colorbar_orientation",
      "_colorbar_horizontal", "_colorbar_vertical", "_show_scalar_bar",
      "_show_edges", "_show_vertices", "_lighting", "_interactive",
      "_render_points_as_spheres", "_render_lines_as_tubes",
      "_transparent_background", "_title", "_axes", "_multi_samples",
      "_multi_rendering_splitting_position", "_volume_mapper", "_smooth_shading",
      "_depth_peeling", "_silhouette", "_slider_styles", "_return_cpos",
      "_hidden_line_removal", "_anti_aliasing", "_enable_camera_orientation_widget",
      "_split_sharp_edges", "_sharp_edges_feature_angle", "_before_close_callback",
      "_lighting_params", "_interpolate_before_map", "_opacity">>

\* the preset variants declare no __slots__ of their own
PresetClasses ==
    {"DarkTheme", "ParaViewTheme", "DocumentTheme", "DocumentProTheme", "_TestingTheme"}
ThemeClasses == {"DefaultTheme"} \cup PresetClasses
GroupClasses ==
    {"_LightingConfig", "_DepthPeelingConfig", "_SilhouetteConfig", "_ColorbarConfig",
     "_AxesConfig", "_Font", "_SliderStyleConfig", "_SliderConfig", "_TrameConfig"}
ConfigClasses == ThemeClasses \cup GroupClasses

\* cls.__slots__ as attribute lookup finds it: a preset inherits DefaultTheme's
SlotsOf(cls) ==
    CASE cls = "_LightingConfig" -> LightingSlots
      [] cls = "_DepthPeelingConfig" -> DepthPeelingSlots
      [] cls = "_SilhouetteConfig" -> SilhouetteSlots
      [] cls = "_ColorbarConfig" -> ColorbarSlots
      [] cls = "_AxesConfig" -> AxesSlots
      [] cls = "_Font" -> FontSlots
      [] cls = "_SliderStyleConfig" -> SliderStyleSlots
      [] cls = "_SliderConfig" -> SliderSlots
      [] cls = "_TrameConfig" -> TrameSlots
      [] cls \in ThemeClasses -> DefaultThemeSlots
      [] OTHER -> <<>>

Range(s) == {s[i] : i \in DOMAIN s}
SlotSets == [c \in ConfigClasses |-> Range(SlotsOf(c))]
SlotSet(cls) == SlotSets[cls]

\* the base classes of a class, itself included (isinstance)
Bases(cls) ==
    CASE cls = "DocumentProTheme" ->
            {"DocumentProTheme", "DocumentTheme", "DefaultTheme", "_ThemeConfig"}
      [] cls \in PresetClasses -> {cls, "DefaultTheme", "_ThemeConfig"}
      [] cls \in ConfigClasses -> {cls, "_ThemeConfig"}
      [] OTHER -> {cls}

\* an instance of a class that declares __slots__ all the way up has no __dict__
HasInstanceDict(cls) == cls \in PresetClasses

\* key[1:] of a slot name, and the slot a public name is stored in
AllSlotNames == UNION {SlotSet(c) : c \in ConfigClasses}
SlotName(f) == "_" \o f
AllPublicNames ==
    {"interpolation", "metallic", "roughness", "ambient", "diffuse", "specular",
     "specular_power", "emissive", "number_of_peels", "occlusion_ratio", "enabled",
     "color", "line_width", "opacity", "feature_angle", "decimate", "width",
     "height", "position_x", "position_y", "x_color", "y_color", "z_color", "box",
     "show", "family", "size", "title_size", "label_size", "fmt", "name",
     "slider_length", "slider_width", "slider_color", "tube_width", "tube_color",
     "cap_opacity", "cap_length", "cap_width", "classic", "modern",
     "interactive_ratio", "still_ratio", "jupyter_server_name",
     "jupyter_server_port", "server_proxy_enabled", "server_proxy_prefix",
     "default_mode", "enable_vtk_warnings", "background", "jupyter_backend",
     "trame", "full_screen", "window_size", "image_scale", "camera", "notebook",
     "font", "auto_close", "cmap", "color_cycler", "above_range_color",
     "below_range_color", "nan_color", "edge_color", "point_size",
     "outline_color", "floor_color", "colorbar_orientation", "colorbar_horizontal",
     "colorbar_vertical", "show_scalar_bar", "show_edges", "show_vertices",
     "lighting", "interactive", "render_points_as_spheres",
     "render_lines_as_tubes", "transparent_background", "title", "axes",
     "multi_samples", "multi_rendering_splitting_position", "volume_mapper",
     "smooth_shading", "depth_peeling", "silhouette", "slider_styles",
     "return_cpos", "hidden_line_removal", "anti_aliasing",
     "enable_camera_orientation_widget", "split_sharp_edges",
     "sharp_edges_feature_angle", "before_close_callback", "lighting_params",
     "interpolate_before_map"}
PublicName == [s \in AllSlotNames |-> CHOOSE f \in AllPublicNames : SlotName(f) = s]
StripUnderscore(slot) == PublicName[slot]

\* the properties of a class: one per slot
PropertyNames == [c \in ConfigClasses |-> {PublicName[s] : s \in SlotSets[c]}]
Properties(cls) == PropertyNames[cls]

(***************************************************************************)
(* The heap.  A config object is [cls, slots, dict]; a Python list is      *)
(* [cls |-> "list", items]; a Python dict is [cls |-> "dict", items], its  *)
(* items a sequence of <<key, value>> pairs.                               *)
(***************************************************************************)
Obj(cls, slots) == [cls |-> cls, slots |-> slots, dict |-> <<>>]
ListObj(items) == [cls |-> "list", items |-> items]
DictObj(items) == [cls |-> "dict", items |-> items]

NewId(h) == CHOOSE i \in 1..(Cardinality(DOMAIN h) + 1) :
                /\ i \notin DOMAIN h
                /\ \A j \in 1..(i - 1) : j \in DOMAIN h
Alloc(h, obj) ==
    LET At(i) == [h |-> (i :> obj) @@ h, id |-> i] IN At(NewId(h))

\* type(v).__name__
ClassOf(h, v) == IF IsRef(v) THEN h[v[2]].cls ELSE TypeOf(v)
\* isinstance(v, cls)
IsInstance(h, v, cls) == cls \in Bases(ClassOf(h, v))

(***************************************************************************)
(* Property setters.  A setter is given the value stored before and the    *)
(* value assigned; it yields the value stored afterwards and the exception *)
(* raised, the statements taken in the order of the code.                  *)
(***************************************************************************)
\* self._x = value
PlainSetter(old, v) == Ok(v)
\* self._x = bool(value)
BoolSetter(old, v) == Ok(Bool(Truthy(v)))
\* self._x = <r>, r the outcome of a conversion: stored unless it raised
Stored(old, r) == IF r.exc = NoExc THEN Ok(r.val) ELSE Raise(old, r.exc)
\* self._x = float(value)
FloatSetter(old, v) == Stored(old, PyFloat(v))
\* self._x = int(value)
IntSetter(old, v) == Stored(old, PyInt(v))
\* if value is None: self._x = None; else: self._x = int(value)
OptionalIntSetter(old, v) == IF v = None THEN Ok(None) ELSE IntSetter(old, v)
\* self._x = Color(value)
ColorSetter(old, v) == Stored(old, Color(v))

\* _check_between_zero_and_one(value, name): the exception it raises, if any
check_between_zero_and_one(v) ==
    CASE OutsideUnit(v) = "yes" -> "ValueError"
      [] OutsideUnit(v) = "no" -> NoExc
      [] OTHER -> "TypeError"

\* DefaultTheme.opacity
theme_opacity_setter(old, v) ==
    IF check_between_zero_and_one(v) # NoExc
    THEN Raise(old, check_between_zero_and_one(v))
    ELSE FloatSetter(old, v)

\* _SilhouetteConfig.opacity
silhouette_opacity_setter(old, v) ==
    IF check_between_zero_and_one(v) # NoExc
    THEN Raise(old, check_between_zero_and_one(v))
    ELSE FloatSetter(old, v)

\* _SilhouetteConfig.decimate
silhouette_decimate_setter(old, v) ==
    IF v = None THEN Ok(None)
    ELSE IF check_between_zero_and_one(v) # NoExc
    THEN Raise(old, check_between_zero_and_one(v))
    ELSE FloatSetter(old, v)

\* _LightingConfig.interpolation
interpolation_setter(old, v) == Stored(old, InterpolationValue(v))

\* _Font.family
family_setter(old, v) ==
    IF parse_font_family(v).exc # NoExc THEN Raise(old, parse_font_family(v).exc)
    ELSE Ok(v)

\* a setter of a nested-group property that takes a config group of any kind
group_setter_any_config(h, cls, old, v) ==
    IF ~IsInstance(h, v, "_ThemeConfig") THEN Raise(old, "TypeError") ELSE Ok(v)

\* the setter of a nested-group property: an isinstance check, then the store
GroupSetter(h, cls, old, v) ==
    IF ~IsInstance(h, v, cls) THEN Raise(old, "TypeError") ELSE Ok(v)

\* DefaultTheme.jupyter_backend
jupyter_backend_setter(old, v) == Stored(old, validate_jupyter_backend(v))

\* a camera setter that does not look for 'viewup'
camera_setter_position_only(h, old, v) ==
    IF ~IsInstance(h, v, "dict") THEN Raise(old, "TypeError")
    ELSE IF "position" \notin Keys(Dict(h[v[2]].items)) THEN Raise(old, "KeyError")
    ELSE Ok(v)

\* DefaultTheme.camera
camera_setter(h, old, v) ==
    IF ~IsInstance(h, v, "dict") THEN Raise(old, "TypeError")
    ELSE IF "position" \notin Keys(Dict(h[v[2]].items)) THEN Raise(old, "KeyError")
    ELSE IF "viewup" \notin Keys(Dict(h[v[2]].items)) THEN Raise(old, "KeyError")
    ELSE Ok(v)

\* the values that have a len(): tuples, strings, lists and dicts
HasLen(h, v) == TypeOf(v) \in {"tuple", "str"} \/ ClassOf(h, v) \in {"list", "dict"}
\* the items of a tuple, a list or a dict
Items(h, v) == IF IsRef(v) THEN h[v[2]].items ELSE v[2]
\* len(x); for a string, the length of each string the model passes
PyLen(h, v) ==
    IF TypeOf(v) # "str" THEN Len(Items(h, v))
    ELSE CASE v[2] \in {"xy"} -> 2
           [] v[2] \in {"0.5", "red"} -> 3
           [] v[2] \in {"msaa"} -> 4
           [] v[2] \in {"bogus", "arial", "smart", "trame"} -> 5
           [] v[2] \in {"viridis", "default"} -> 7
           [] v[2] \in {"vertical"} -> 8

\* the outcome of `v < 0`: "yes", "no", or the exception raised
Negative(v) ==
    CASE IsNumber(v) -> IF NumVal(v) < 0 THEN "yes" ELSE "no"
      [] TypeOf(v) = "nan" -> "no"
      [] OTHER -> "TypeError"

\* a window_size setter that stores the value before it validates it
window_size_stored_first(h, old, v) ==
    IF ~HasLen(h, v) THEN Raise(v, "TypeError")
    ELSE IF PyLen(h, v) # 2 THEN Raise(v, "ValueError")
    ELSE IF ClassOf(h, v) = "dict" THEN Raise(v, "KeyError")
    ELSE IF TypeOf(v) = "str" THEN Raise(v, "TypeError")
    ELSE IF Negative(Items(h, v)[1]) = "TypeError" THEN Raise(v, "TypeError")
    ELSE IF Negative(Items(h, v)[1]) = "yes" THEN Raise(v, "ValueError")
    ELSE IF Negative(Items(h, v)[2]) = "TypeError" THEN Raise(v, "TypeError")
    ELSE IF Negative(Items(h, v)[2]) = "yes" THEN Raise(v, "ValueError")
    ELSE Ok(v)

\* a window_size setter that looks at the components before the length
window_size_components_first(h, old, v) ==
    IF ~HasLen(h, v) THEN Raise(old, "TypeError")
    ELSE IF ClassOf(h, v) = "dict" THEN Raise(old, "KeyError")
    ELSE IF TypeOf(v) = "str" THEN Raise(old, "TypeError")
    ELSE IF Len(Items(h, v)) < 1 THEN Raise(old, "IndexError")
    ELSE IF Negative(Items(h, v)[1]) = "TypeError" THEN Raise(old, "TypeError")
    ELSE IF Negative(Items(h, v)[1]) = "yes" THEN Raise(old, "ValueError")
    ELSE IF Len(Items(h, v)) < 2 THEN Raise(old, "IndexError")
    ELSE IF Negative(Items(h, v)[2]) = "TypeError" THEN Raise(old, "TypeError")
    ELSE IF Negative(Items(h, v)[2]) = "yes" THEN Raise(old, "ValueError")
    ELSE IF Len(Items(h, v)) # 2 THEN Raise(old, "ValueError")
    ELSE Ok(v)

\* DefaultTheme.window_size: len(window_size) != 2, then
\* window_size[0] < 0 or window_size[1] < 0, then the store of the object given
\* (window_size[0] of a dict without the key 0 is a KeyError, a character of a
\* string does not compare with 0)
window_size_setter(h, old, v) ==
    IF ~HasLen(h, v) THEN Raise(old, "TypeError")
    ELSE IF PyLen(h, v) # 2 THEN Raise(old, "ValueError")
    ELSE IF ClassOf(h, v) = "dict" THEN Raise(old, "KeyError")
    ELSE IF TypeOf(v) = "str" THEN Raise(old, "TypeError")
    ELSE IF Negative(Items(h, v)[1]) = "TypeError" THEN Raise(old, "TypeError")
    ELSE IF Negative(Items(h, v)[1]) = "yes" THEN Raise(old, "ValueError")
    ELSE IF Negative(Items(h, v)[2]) = "TypeError" THEN Raise(old, "TypeError")
    ELSE IF Negative(Items(h, v)[2]) = "yes" THEN Raise(old, "ValueError")
    ELSE Ok(v)

\* an image_scale setter that rejects the negative values only
image_scale_setter_nonnegative(old, v) ==
    LET Scaled(r) == IF r.exc # NoExc THEN Raise(old, r.exc)
                     ELSE IF NumVal(r.val) < 0 THEN Raise(old, "ValueError")
                     ELSE Ok(r.val)
    IN Scaled(PyInt(v))

\* DefaultTheme.image_scale
image_scale_setter(old, v) ==
    LET Scaled(r) == IF r.exc # NoExc THEN Raise(old, r.exc)
                     ELSE IF NumVal(r.val) < 1000 THEN Raise(old, "ValueError")
                     ELSE Ok(r.val)
    IN Scaled(PyInt(v))

\* DefaultTheme.cmap: without matplotlib the colormap falls back to None
cmap_setter(e, old, v) ==
    LET Mapped(r) == IF r.exc = NoExc THEN Ok(v)
                     ELSE IF r.exc = "ImportError" THEN Ok(None)
                     ELSE Raise(old, r.exc)
    IN Mapped(get_cmap_safe(e, v))

\* DefaultTheme.color_cycler
color_cycler_setter(old, v) == Stored(old, get_cycler(v))

\* DefaultTheme.colorbar_orientation
colorbar_orientation_setter(old, v) ==
    IF v \notin {Str("vertical"), Str("horizontal")} THEN Raise(old, "ValueError")
    ELSE Ok(v)

\* a volume_mapper setter that takes any string
volume_mapper_setter_any_string(old, v) ==
    IF TypeOf(v) # "str" THEN Raise(old, "ValueError") ELSE Ok(v)

\* DefaultTheme.volume_mapper
volume_mapper_setter(old, v) ==
    IF v \notin {Str("fixed_point"), Str("gpu"), Str("open_gl"), Str("smart")}
    THEN Raise(old, "ValueError")
    ELSE Ok(v)

\* an anti_aliasing setter without the legacy form: a bool is a TypeError
anti_aliasing_setter_no_bool(old, v) ==
    LET Checked(a) ==
            IF TypeOf(a) = "str" /\ a \notin {Str("ssaa"), Str("msaa"), Str("fxaa")}
            THEN Raise(old, "ValueError")
            ELSE IF TypeOf(a) # "str" /\ a # None THEN Raise(old, "TypeError")
            ELSE Ok(a)
    IN Checked(v)

\* DefaultTheme.anti_aliasing: a bool is first mapped to 'fxaa' or None
anti_aliasing_setter(old, v) ==
    LET Checked(a) ==
            IF TypeOf(a) = "str" /\ a \notin {Str("ssaa"), Str("msaa"), Str("fxaa")}
            THEN Raise(old, "ValueError")
            ELSE IF TypeOf(a) # "str" /\ a # None THEN Raise(old, "TypeError")
            ELSE Ok(a)
    IN Checked(IF TypeOf(v) = "bool" THEN (IF v[2] THEN Str("fxaa") ELSE None) ELSE v)

(***************************************************************************)
(* The property setters of each class, by property name.                   *)
(***************************************************************************)
LightingSet(name, old, v) ==
    CASE name = "interpolation" -> interpolation_setter(old, v)
      [] name = "emissive" -> BoolSetter(old, v)
      [] OTHER -> PlainSetter(old, v)

DepthPeelingSet(name, old, v) ==
    CASE name = "number_of_peels" -> IntSetter(old, v)
      [] name = "occlusion_ratio" -> FloatSetter(old, v)
      [] OTHER -> BoolSetter(old, v)

SilhouetteSet(name, old, v) ==
    CASE name = "enabled" -> BoolSetter(old, v)
      [] name = "color" -> ColorSetter(old, v)
      [] name = "line_width" -> FloatSetter(old, v)
      [] name = "opacity" -> silhouette_opacity_setter(old, v)
      [] name = "feature_angle" -> PlainSetter(old, v)
      [] OTHER -> silhouette_decimate_setter(old, v)

ColorbarSet(name, old, v) == FloatSetter(old, v)

AxesSet(name, old, v) ==
    IF name \in {"x_color", "y_color", "z_color"} THEN ColorSetter(old, v)
    ELSE BoolSetter(old, v)

FontSet(name, old, v) ==
    CASE name = "family" -> family_setter(old, v)
      [] name = "size" -> IntSetter(old, v)
      [] name \in {"title_size", "label_size"} -> OptionalIntSetter(old, v)
      [] name = "color" -> ColorSetter(old, v)
      [] OTHER -> PlainSetter(old, v)

SliderStyleSet(name, old, v) ==
    CASE name = "name" -> PlainSetter(old, v)
      [] name \in {"tube_color", "slider_color"} -> ColorSetter(old, v)
      [] OTHER -> FloatSetter(old, v)

SliderSet(h, name, old, v) == GroupSetter(h, "_SliderStyleConfig", old, v)

TrameSet(name, old, v) ==
    IF name \in {"server_proxy_enabled", "enable_vtk_warnings"} THEN BoolSetter(old, v)
    ELSE PlainSetter(old, v)

\* the class a nested-group property of the theme accepts
GroupClassOf(name) ==
    CASE name = "trame" -> "_TrameConfig"
      [] name = "font" -> "_Font"
      [] name \in {"colorbar_horizontal", "colorbar_vertical"} -> "_ColorbarConfig"
      [] name = "axes" -> "_AxesConfig"
      [] name = "depth_peeling" -> "_DepthPeelingConfig"
      [] name = "silhouette" -> "_SilhouetteConfig"
      [] name = "slider_styles" -> "_SliderConfig"
      [] name = "lighting_params" -> "_LightingConfig"
      [] OTHER -> "none"
ThemeGroupProperties ==
    {"trame", "font", "colorbar_horizontal", "colorbar_vertical", "axes",
     "depth_peeling", "silhouette", "slider_styles", "lighting_params"}

DefaultThemeSet(h, e, name, old, v) ==
    CASE name \in ThemeGroupProperties -> GroupSetter(h, GroupClassOf(name), old, v)
      [] name \in {"background", "color", "above_range_color", "below_range_color",
                   "nan_color", "edge_color", "outline_color", "floor_color"}
            -> ColorSetter(old, v)
      [] name \in {"line_width", "point_size", "sharp_edges_feature_angle"}
            -> FloatSetter(old, v)
      [] name \in {"show_scalar_bar", "show_edges", "show_vertices", "interactive",
                   "render_points_as_spheres", "render_lines_as_tubes",
                   "smooth_shading"}
            -> BoolSetter(old, v)
      [] name = "multi_samples" -> IntSetter(old, v)
      [] name = "opacity" -> theme_opacity_setter(old, v)
      [] name = "jupyter_backend" -> jupyter_backend_setter(old, v)
      [] name = "camera" -> camera_setter(h, old, v)
      [] name = "window_size" -> window_size_setter(h, old, v)
      [] name = "image_scale" -> image_scale_setter(old, v)
      [] name = "cmap" -> cmap_setter(e, old, v)
      [] name = "color_cycler" -> color_cycler_setter(old, v)
      [] name = "colorbar_orientation" -> colorbar_orientation_setter(old, v)
      [] name = "volume_mapper" -> volume_mapper_setter(old, v)
      [] name = "anti_aliasing" -> anti_aliasing_setter(old, v)
      [] OTHER -> PlainSetter(old, v)

\* the setter of property `name` of class `cls`
PropertySet(h, e, cls, name, old, v) ==
    CASE cls = "_LightingConfig" -> LightingSet(name, old, v)
      [] cls = "_DepthPeelingConfig" -> DepthPeelingSet(name, old, v)
      [] cls = "_SilhouetteConfig" -> SilhouetteSet(name, old, v)
      [] cls = "_ColorbarConfig" -> ColorbarSet(name, old, v)
      [] cls = "_AxesConfig" -> AxesSet(name, old, v)
      [] cls = "_Font" -> FontSet(name, old, v)
      [] cls = "_SliderStyleConfig" -> SliderStyleSet(name, old, v)
      [] cls = "_SliderConfig" -> SliderSet(h, name, old, v)
      [] cls = "_TrameConfig" -> TrameSet(name, old, v)
      [] OTHER -> DefaultThemeSet(h, e, name, old, v)

(***************************************************************************)
(* Attribute access on a config object.                                    *)
(***************************************************************************)
\* the deprecated alias of anti_aliasing
Aliases(cls) == IF cls \in ThemeClasses THEN {"antialiasing"} ELSE {}
AliasTarget(name) == "anti_aliasing"

\* the warnings setattr(obj, key, v) emits, in order, obj an instance of cls:
\* the antialiasing setter warns and forwards, the anti_aliasing setter warns
\* of a bool, the cmap setter warns when matplotlib cannot be imported
Warnings(e, cls, key, v) ==
    IF cls \notin ThemeClasses THEN <<>>
    ELSE (IF key = "antialiasing" THEN <<"PyVistaDeprecationWarning">> ELSE <<>>)
         \o (IF key \in {"antialiasing", "anti_aliasing"} /\ TypeOf(v) = "bool"
             THEN <<"PyVistaDeprecationWarning">> ELSE <<>>)
         \o (IF key = "cmap" /\ ~e.matplotlib THEN <<"UserWarning">> ELSE <<>>)

\* the methods a class defines: attributes that are neither slots nor properties
Methods(cls) ==
    {"from_dict", "to_dict"} \cup
    (IF cls \in ThemeClasses THEN {"restore_defaults", "load_theme", "save"} ELSE {})

\* setattr(obj, key, v): the heap afterwards and the exception raised
SetAttr(h, e, id, key, v) ==
    LET o == h[id]
        name == IF key \in Aliases(o.cls) THEN AliasTarget(key) ELSE key
    IN
    IF name \in Properties(o.cls)
    THEN LET Put(r) ==
                 [h |-> [h EXCEPT ![id].slots[SlotName(name)] = r.val], exc |-> r.exc]
         IN Put(PropertySet(h, e, o.cls, name, o.slots[SlotName(name)], v))
    ELSE IF key \in SlotSet(o.cls)
    THEN [h |-> [h EXCEPT ![id].slots[key] = v], exc |-> NoExc]
    ELSE IF HasInstanceDict(o.cls)
    THEN [h |-> [h EXCEPT ![id].dict = (key :> v) @@ o.dict], exc |-> NoExc]
    ELSE [h |-> h, exc |-> "AttributeError"]

\* getattr(obj, key): the value and the exception raised
GetAttr(h, id, key) ==
    LET o == h[id]
        name == IF key \in Aliases(o.cls) THEN AliasTarget(key) ELSE key
    IN
    IF key \in DOMAIN o.dict /\ key \notin Properties(o.cls) \cup Aliases(o.cls)
    THEN Ok(o.dict[key])
    ELSE IF name \in Properties(o.cls) THEN Ok(o.slots[SlotName(name)])
    ELSE IF key \in SlotSet(o.cls) THEN Ok(o.slots[key])
    ELSE IF key \in Methods(o.cls) THEN Ok(<<"method", key>>)
    ELSE Raise(None, "AttributeError")

\* _ThemeConfig.__getitem__(self, key): getattr(self, key)
getitem(h, id, key) == GetAttr(h, id, key)

\* a __setitem__ that writes the slot of the key, past the setter of the property
setitem_slot(h, e, id, key, v) ==
    IF SlotName(key) \in DOMAIN h[id].slots
    THEN [h |-> [h EXCEPT ![id].slots[SlotName(key)] = v], exc |-> NoExc]
    ELSE [h |-> h, exc |-> "KeyError"]

\* _ThemeConfig.__setitem__(self, key, value): setattr(self, key, value)
setitem(h, e, id, key, v) == SetAttr(h, e, id, key, v)

\* hasattr(value, 'from_dict'), hasattr(value, 'to_dict'): config objects and colours
HasDictMethods(h, v) ==
    \/ TypeOf(v) = "Color"
    \/ IsRef(v) /\ h[v[2]].cls \in ConfigClasses

(***************************************************************************)
(* Constructors.                                                           *)
(***************************************************************************)
\* the slots of a leaf group as its __init__ leaves them
LeafInit(cls) ==
    CASE cls = "_LightingConfig" ->
            [_interpolation |-> Num(0), _metallic |-> Num(0), _roughness |-> Num(500),
             _ambient |-> Num(0), _diffuse |-> Num(1000), _specular |-> Num(0),
             _specular_power |-> Num(100000), _emissive |-> Bool(FALSE)]
      [] cls = "_DepthPeelingConfig" ->
            [_number_of_peels |-> Num(4000), _occlusion_ratio |-> Num(0),
             _enabled |-> Bool(FALSE)]
      [] cls = "_SilhouetteConfig" ->
            [_color |-> C("black"), _line_width |-> Num(2000), _opacity |-> Num(1000),
             _feature_angle |-> None, _decimate |-> None, _enabled |-> Bool(FALSE)]
      [] cls = "_ColorbarConfig" ->
            [_width |-> None, _height |-> None, _position_x |-> None,
             _position_y |-> None]
      [] cls = "_AxesConfig" ->
            [_x_color |-> C("tomato"), _y_color |-> C("seagreen"),
             _z_color |-> C("mediumblue"), _box |-> Bool(FALSE), _show |-> Bool(TRUE)]
      [] cls = "_Font" ->
            [_family |-> Str("arial"), _size |-> Num(12000), _title_size |-> None,
             _label_size |-> None, _color |-> C("white"), _fmt |-> None]
      [] cls = "_SliderStyleConfig" ->
            [_name |-> None, _slider_length |-> None, _slider_width |-> None,
             _slider_color |-> None, _tube_width |-> None, _tube_color |-> None,
             _cap_opacity |-> None, _cap_length |-> None, _cap_width |-> None]
      [] cls = "_TrameConfig" ->
            [_interactive_ratio |-> Num(1000), _still_ratio |-> Num(1000),
             _jupyter_server_name |-> Str("pyvista-jupyter"),
             _jupyter_server_port |-> Num(0),
             _server_proxy_enabled |-> Bool(FALSE),
             _server_proxy_prefix |-> Str("/proxy/"),
             _default_mode |-> Str("trame"), _enable_vtk_warnings |-> Bool(FALSE)]

LeafClasses == GroupClasses \ {"_SliderConfig"}
NewLeaf(h, cls) == Alloc(h, Obj(cls, LeafInit(cls)))

\* an assignment statement `self.<path>.<key> = <val>`
Stmt(path, key, val) == [path |-> path, key |-> key, val |-> val]

\* a list or dict display (or a parsed JSON array or object) becomes a new object
\* of the heap; any other value is itself
Materialize(h, x) ==
    LET Boxed(a) == [h |-> a.h, val |-> Ref(a.id)] IN
    CASE TypeOf(x) \in {"list", "dict"} ->
            Boxed(Alloc(h, IF TypeOf(x) = "list" THEN ListObj(x[2]) ELSE DictObj(x[2])))
      [] OTHER -> [h |-> h, val |-> x]

RECURSIVE Resolve(_, _, _)
\* the object `self.<path>` refers to
Resolve(h, id, path) ==
    IF path = <<>> THEN id
    ELSE Resolve(h, GetAttr(h, id, Head(path)).val[2], Tail(path))

\* one assignment statement of a constructor
RunStmt(h, e, id, s) ==
    LET Run(v) == SetAttr(v.h, e, Resolve(v.h, id, s.path), s.key, v.val)
    IN Run(Materialize(h, s.val))

RECURSIVE RunRange(_, _, _, _, _, _)
\* the statements lo..hi in order, stopping at the first that raises (the range
\* is halved: the first half runs, then the second half on the heap it leaves)
RunRange(h, e, id, stmts, lo, hi) ==
    IF lo > hi THEN [h |-> h, exc |-> NoExc]
    ELSE IF lo = hi THEN RunStmt(h, e, id, stmts[lo])
    ELSE LET Then(r, mid) ==
                 IF r.exc # NoExc THEN r ELSE RunRange(r.h, e, id, stmts, mid + 1, hi)
         IN Then(RunRange(h, e, id, stmts, lo, (lo + hi) \div 2), (lo + hi) \div 2)

\* the statements in order, stopping at the first that raises
RunStmts(h, e, id, stmts) == RunRange(h, e, id, stmts, 1, Len(stmts))

\* the n smallest identities the heap does not use, in increasing order
FreshIds(h, n) ==
    LET free == (1..(Cardinality(DOMAIN h) + n)) \ DOMAIN h
    IN [i \in 1..n |-> CHOOSE x \in free : Cardinality({y \in free : y < x}) = i - 1]

RECURSIVE Store(_, _, _)
\* the heap with the new objects objs[i] at the identities ids[i]
Store(h, ids, objs) ==
    IF ids = <<>> THEN h
    ELSE (Head(ids) :> Head(objs)) @@ Store(h, Tail(ids), Tail(objs))

\* a _SliderStyleConfig after the nine assignments _SliderConfig.__init__ makes
\* to it, each through the property's setter
StyleInit(name, slider_length, slider_width, slider_color, tube_width, tube_color, cap_opacity, cap_length, cap_width) ==
    LET Assigned(value) ==
            Obj("_SliderStyleConfig",
                [s \in SlotSet("_SliderStyleConfig") |->
                    SliderStyleSet(PublicName[s], None, value[s]).val])
    IN Assigned([_name |-> name, _slider_length |-> slider_length,
                 _slider_width |-> slider_width, _slider_color |-> slider_color,
                 _tube_width |-> tube_width, _tube_color |-> tube_color,
                 _cap_opacity |-> cap_opacity, _cap_length |-> cap_length,
                 _cap_width |-> cap_width])

\* _SliderConfig.__init__: the group at ids[1], its two styles at ids[2], ids[3]
SliderInit(ids) ==
    LET Style(a) == StyleInit(a[1], a[2], a[3], a[4], a[5], a[6], a[7], a[8], a[9])
        styles ==
            << <<Str("classic"), Num(20), Num(40), Str("gray"), Num(5), Str("white"),
                 Num(1000), Num(10), Num(20)>>,
               <<Str("modern"), Num(20), Num(40), RGB(110, 113, 117), Num(40),
                 RGB(178, 179, 181), Num(0), Num(10), Num(20)>> >>
    IN << Obj("_SliderConfig", [_classic |-> Ref(ids[2]), _modern |-> Ref(ids[3])]) >>
       \o [i \in 1..2 |-> Style(styles[i])]

Unset == <<"unset">>
\* an object of class cls before its __init__ has run
Blank(cls) == Obj(cls, [s \in SlotSet(cls) |-> Unset])

\* _SliderConfig()
NewSlider(h, e) ==
    LET Built(ids) == [h |-> Store(h, ids, SliderInit(ids)), id |-> ids[1]]
    IN Built(FreshIds(h, 3))

\* cls() for a group class
NewGroup(h, e, cls) == IF cls = "_SliderConfig" THEN NewSlider(h, e) ELSE NewLeaf(h, cls)

\* a _ColorbarConfig after the four assignments DefaultTheme.__init__ makes to
\* it, each through the property's setter
ColorbarInit(width, height, position_x, position_y) ==
    LET Assigned(value) ==
            Obj("_ColorbarConfig",
                [s \in SlotSet("_ColorbarConfig") |->
                    ColorbarSet(PublicName[s], None, value[s]).val])
    IN Assigned([_width |-> width, _height |-> height,
                 _position_x |-> position_x, _position_y |-> position_y])

\* the leaf groups DefaultTheme.__init__ constructs with their own defaults
ThemeLeaves ==
    <<"_Font", "_AxesConfig", "_TrameConfig", "_DepthPeelingConfig",
      "_SilhouetteConfig", "_LightingConfig">>

\* DefaultTheme.__init__, with the PYVISTA_* environment variables unset: the
\* slots of self, and thirteen new objects for the camera dict, the window
\* size list and the groups
DefaultThemeInit(h, e, id) ==
    LET Colorbar(a) == ColorbarInit(a[1], a[2], a[3], a[4])
        objs(ids) ==
            << DictObj(<< <<"position", ListV(<<Num(1000), Num(1000), Num(1000)>>)>>,
                          <<"viewup", ListV(<<Num(0), Num(0), Num(1000)>>)>> >>),
               ListObj(<<Num(1024000), Num(768000)>> ) >>
            \o [i \in 1..2 |-> Colorbar(<< <<Num(600), Num(80), Num(350), Num(50)>>,
                                           <<Num(80), Num(450), Num(900), Num(20)>> >>[i])]
            \o SliderInit(<<ids[5], ids[6], ids[7]>>)
            \o [i \in 1..6 |-> Obj(ThemeLeaves[i], LeafInit(ThemeLeaves[i]))]
        slots(ids) ==
            [_name |-> Str("default"),
             _background |-> ColorObj(ColorTable[Tuple(<<Num(300), Num(300), Num(300)>>)]),
             _full_screen |-> Bool(FALSE),
             _camera |-> Ref(ids[1]),
             _notebook |-> None,
             _window_size |-> Ref(ids[2]),
             _image_scale |-> Num(1000),
             _font |-> Ref(ids[8]),
             _cmap |-> Str("viridis"),
             _color |-> C("white"),
             _color_cycler |-> None,
             _nan_color |-> C("darkgray"),
             _above_range_color |-> C("grey"),
             _below_range_color |-> C("grey"),
             _edge_color |-> C("black"),
             _line_width |-> Num(1000),
             _point_size |-> Num(5000),
             _outline_color |-> C("white"),
             _floor_color |-> C("gray"),
             _colorbar_orientation |-> Str("horizontal"),
             _colorbar_horizontal |-> Ref(ids[3]),
             _colorbar_vertical |-> Ref(ids[4]),
             _show_scalar_bar |-> Bool(TRUE),
             _show_edges |-> Bool(FALSE),
             _show_vertices |-> Bool(FALSE),
             _lighting |-> Bool(TRUE),
             _interactive |-> Bool(FALSE),
             _render_points_as_spheres |-> Bool(FALSE),
             _render_lines_as_tubes |-> Bool(FALSE),
             _transparent_background |-> Bool(FALSE),
             _title |-> Str("PyVista"),
             _axes |-> Ref(ids[9]),
             _split_sharp_edges |-> Bool(FALSE),
             _sharp_edges_feature_angle |-> Num(30000),
             _before_close_callback |-> None,
             _multi_samples |-> Num(4000),
             _auto_close |-> Bool(TRUE),
             _jupyter_backend |-> Str("trame"),
             _trame |-> Ref(ids[10]),
             _multi_rendering_splitting_position |-> None,
             _volume_mapper |-> IF e.nt THEN Str("fixed_point") ELSE Str("smart"),
             _smooth_shading |-> Bool(FALSE),
             _depth_peeling |-> Ref(ids[11]),
             _silhouette |-> Ref(ids[12]),
             _slider_styles |-> Ref(ids[5]),
             _return_cpos |-> Bool(TRUE),
             _hidden_line_removal |-> Bool(FALSE),
             _anti_aliasing |-> None,
             _enable_camera_orientation_widget |-> Bool(FALSE),
             _lighting_params |-> Ref(ids[13]),
             _interpolate_before_map |-> Bool(TRUE),
             _opacity |-> Num(1000)]
        Build(ids) == Store([h EXCEPT ![id].slots = slots(ids)], ids, objs(ids))
    IN Build(FreshIds(h, 13))

\* the assignments of DarkTheme.__init__ after super().__init__()
DarkThemeStmts ==
    << Stmt(<<>>, "name", Str("dark")),
       Stmt(<<>>, "background", Str("black")),
       Stmt(<<>>, "cmap", Str("viridis")),
       Stmt(<<"font">>, "color", Str("white")),
       Stmt(<<>>, "show_edges", Bool(FALSE)),
       Stmt(<<>>, "color", Str("tan")),
       Stmt(<<>>, "outline_color", Str("white")),
       Stmt(<<>>, "edge_color", Str("white")),
       Stmt(<<"axes">>, "x_color", Str("tomato")),
       Stmt(<<"axes">>, "y_color", Str("seagreen")),
       Stmt(<<"axes">>, "z_color", Str("blue")) >>

\* the assignments of ParaViewTheme.__init__
ParaViewThemeStmts ==
    << Stmt(<<>>, "name", Str("paraview")),
       Stmt(<<>>, "background", Str("paraview")),
       Stmt(<<>>, "cmap", Str("coolwarm")),
       Stmt(<<"font">>, "family", Str("arial")),
       Stmt(<<"font">>, "label_size", Num(16000)),
       Stmt(<<"font">>, "color", Str("white")),
       Stmt(<<>>, "show_edges", Bool(FALSE)),
       Stmt(<<>>, "color", Str("white")),
       Stmt(<<>>, "outline_color", Str("white")),
       Stmt(<<>>, "edge_color", Str("black")),
       Stmt(<<"axes">>, "x_color", Str("tomato")),
       Stmt(<<"axes">>, "y_color", Str("gold")),
       Stmt(<<"axes">>, "z_color", Str("green")) >>

\* the assignments of DocumentTheme.__init__
DocumentThemeStmts ==
    << Stmt(<<>>, "name", Str("document")),
       Stmt(<<>>, "background", Str("white")),
       Stmt(<<>>, "cmap", Str("viridis")),
       Stmt(<<"font">>, "size", Num(18000)),
       Stmt(<<"font">>, "title_size", Num(18000)),
       Stmt(<<"font">>, "label_size", Num(18000)),
       Stmt(<<"font">>, "color", Str("black")),
       Stmt(<<>>, "show_edges", Bool(FALSE)),
       Stmt(<<>>, "color", Str("tan")),
       Stmt(<<>>, "outline_color", Str("black")),
       Stmt(<<>>, "edge_color", Str("black")),
       Stmt(<<"axes">>, "x_color", Str("tomato")),
       Stmt(<<"axes">>, "y_color", Str("seagreen")),
       Stmt(<<"axes">>, "z_color", Str("blue")) >>

\* the assignments of DocumentProTheme.__init__, after DocumentTheme's
DocumentProThemeStmts ==
    << Stmt(<<>>, "color_cycler", get_cycler(Str("default")).val),
       Stmt(<<>>, "render_points_as_spheres", Bool(TRUE)),
       Stmt(<<>>, "anti_aliasing", Str("msaa")),
       Stmt(<<>>, "multi_samples", Num(2000)),
       Stmt(<<"depth_peeling">>, "number_of_peels", Num(4000)),
       Stmt(<<"depth_peeling">>, "occlusion_ratio", Num(0)),
       Stmt(<<"depth_peeling">>, "enabled", Bool(TRUE)) >>

\* the assignments of _TestingTheme.__init__
TestingThemeStmts ==
    << Stmt(<<>>, "name", Str("testing")),
       Stmt(<<>>, "multi_samples", Num(1000)),
       Stmt(<<>>, "window_size", ListV(<<Num(400000), Num(400000)>>)),
       Stmt(<<"axes">>, "show", Bool(FALSE)),
       Stmt(<<>>, "return_cpos", Bool(FALSE)) >>

\* a DocumentProTheme.__init__ built on the base initialiser only
init_theme_pro_on_default(h, e, id, cls) ==
    RunStmts(DefaultThemeInit(h, e, id), e, id,
             CASE cls = "DarkTheme" -> DarkThemeStmts
               [] cls = "ParaViewTheme" -> ParaViewThemeStmts
               [] cls = "DocumentTheme" -> DocumentThemeStmts
               [] cls = "DocumentProTheme" -> DocumentProThemeStmts
               [] cls = "_TestingTheme" -> TestingThemeStmts
               [] OTHER -> <<>>).h

\* an __init__ that stops after the base initialiser
init_theme_base_only(h, e, id, cls) == RunStmts(DefaultThemeInit(h, e, id), e, id, <<>>).h

\* cls.__init__(self): the base initialiser, then the class's own assignments
InitTheme(h, e, id, cls) ==
    RunStmts(DefaultThemeInit(h, e, id), e, id,
             CASE cls = "DarkTheme" -> DarkThemeStmts
               [] cls = "ParaViewTheme" -> ParaViewThemeStmts
               [] cls = "DocumentTheme" -> DocumentThemeStmts
               [] cls = "DocumentProTheme" -> DocumentThemeStmts \o DocumentProThemeStmts
               [] cls = "_TestingTheme" -> TestingThemeStmts
               [] OTHER -> <<>>).h

\* cls() for a theme class
NewTheme(h, e, cls) ==
    LET Init_(a) == [h |-> InitTheme(a.h, e, a.id, cls), id |-> a.id]
    IN Init_(Alloc(h, Blank(cls)))

\* the objects reachable from a set of objects
RECURSIVE Reach(_, _)
Reach(h, ids) ==
    LET Grow(next) == IF next = ids THEN ids ELSE Reach(h, next)
    IN Grow(ids \cup
            {v[2] : v \in {x \in UNION {
                (IF h[i].cls \in ConfigClasses
                 THEN {h[i].slots[s] : s \in DOMAIN h[i].slots}
                        \cup {h[i].dict[k] : k \in DOMAIN h[i].dict}
                 ELSE {}) : i \in ids} : IsRef(x)}})

\* what is left of the heap when the objects no variable leads to are dropped
Collect(h, roots) == [i \in Reach(h, roots) |-> h[i]]

(***************************************************************************)
(* _ThemeConfig: to_dict, from_dict and __eq__.                            *)
(***************************************************************************)
\* a to_dict that does not convert the values: a nested group is stored as it is
to_dict_shallow(h, id) ==
    LET slots == SlotsOf(h[id].cls)
        entry(key) == <<StripUnderscore(key), h[id].slots[key]>>
    IN Dict([i \in DOMAIN slots |-> entry(slots[i])])

RECURSIVE to_dict(_, _)
\* _ThemeConfig.to_dict: the slots in order, each key without its underscore; a
\* value that has a to_dict of its own (a config object, a colour) is converted
to_dict(h, id) ==
    LET slots == SlotsOf(h[id].cls)
        entry(key) ==
            LET value == h[id].slots[key] IN
            <<StripUnderscore(key),
              IF ~HasDictMethods(h, value) THEN value
              ELSE IF TypeOf(value) = "Color" THEN RGBADict(value[2])
              ELSE to_dict(h, value[2])>>
    IN Dict([i \in DOMAIN slots |-> entry(slots[i])])

\* cls()
New(h, e, cls) == IF cls \in ThemeClasses THEN NewTheme(h, e, cls) ELSE NewGroup(h, e, cls)

RECURSIVE from_dict(_, _, _, _)
\* the body of the loop of from_dict for one item of dict_
\* attr = getattr(inst, key); the value is attr.from_dict(value) when attr has
\* a from_dict, value itself otherwise; then setattr(inst, key, <the value>)
FromDictItem(h, e, inst, key, value) ==
    LET FromColor(c) == [h |-> h, val |-> c.val, exc |-> c.exc]
        FromConfig(sub) == [h |-> sub.h, val |-> Ref(sub.id), exc |-> sub.exc]
        Plain(m) == [h |-> m.h, val |-> m.val, exc |-> NoExc]
        Convert(attr) ==
            IF attr.exc # NoExc THEN [h |-> h, val |-> None, exc |-> attr.exc]
            ELSE IF ~HasDictMethods(h, attr.val) THEN Plain(Materialize(h, value))
            ELSE IF TypeOf(attr.val) = "Color" THEN FromColor(Color(value))
            ELSE IF TypeOf(value) # "dict"
            THEN [h |-> h, val |-> None, exc |-> "AttributeError"]
            ELSE FromConfig(from_dict(h, e, h[attr.val[2]].cls, value))
        Set(r) == IF r.exc # NoExc THEN [h |-> h, exc |-> r.exc]
                  ELSE SetAttr(r.h, e, inst, key, r.val)
    IN Set(Convert(GetAttr(h, inst, key)))

RECURSIVE FromDictItems(_, _, _, _, _, _)
\* the loop of from_dict over the items lo..hi of dict_, stopping at the first
\* exception (the range is halved: the first half, then the second)
FromDictItems(h, e, inst, pairs, lo, hi) ==
    IF lo > hi THEN [h |-> h, exc |-> NoExc]
    ELSE IF lo = hi THEN FromDictItem(h, e, inst, pairs[lo][1], pairs[lo][2])
    ELSE LET Then(r, mid) ==
                 IF r.exc # NoExc THEN r
                 ELSE FromDictItems(r.h, e, inst, pairs, mid + 1, hi)
         IN Then(FromDictItems(h, e, inst, pairs, lo, (lo + hi) \div 2),
                 (lo + hi) \div 2)

\* _ThemeConfig.from_dict(cls, dict_): the heap, the instance and the exception
from_dict(h, e, cls, d) ==
    LET Result(r, id) == [h |-> r.h, id |-> id, exc |-> r.exc]
        Fill(inst) == Result(FromDictItems(inst.h, e, inst.id, d[2], 1, Len(d[2])),
                             inst.id)
    IN Fill(New(h, e, cls))

IsSeqValue(h, v) == TypeOf(v) = "tuple" \/ ClassOf(h, v) = "list"

RECURSIVE ValueEq(_, _, _)
RECURSIVE ConfigEq(_, _, _)
\* x == y for two values
ValueEq(h, x, y) ==
    CASE IsNumber(x) /\ IsNumber(y) -> NumVal(x) = NumVal(y)
      [] TypeOf(x) = "nan" \/ TypeOf(y) = "nan" -> FALSE
      [] IsRef(x) /\ IsRef(y) ->
            IF h[x[2]].cls \in ConfigClasses /\ h[y[2]].cls \in ConfigClasses
            THEN ConfigEq(h, x[2], y[2])
            ELSE IF h[x[2]].cls # h[y[2]].cls THEN FALSE
            ELSE IF h[x[2]].cls = "list"
            THEN /\ Len(h[x[2]].items) = Len(h[y[2]].items)
                 /\ \A i \in DOMAIN h[x[2]].items :
                        ValueEq(h, h[x[2]].items[i], h[y[2]].items[i])
            ELSE /\ Keys(Dict(h[x[2]].items)) = Keys(Dict(h[y[2]].items))
                 /\ \A k \in Keys(Dict(h[x[2]].items)) :
                        ValueEq(h, Lookup(Dict(h[x[2]].items), k),
                                   Lookup(Dict(h[y[2]].items), k))
      [] TypeOf(x) = TypeOf(y) /\ ~IsRef(x) -> x = y
      [] OTHER -> FALSE

\* _ThemeConfig.__eq__(self, other)
ConfigEq(h, self, other) ==
    IF h[other].cls \notin Bases(h[self].cls) THEN FALSE
    ELSE \A attr_name \in SlotSet(h[other].cls) :
            LET attr == h[self].slots[attr_name]
                other_attr == h[other].slots[attr_name]
            IN IF IsSeqValue(h, attr)
               THEN /\ IsSeqValue(h, other_attr)
                    /\ Len(Items(h, attr)) = Len(Items(h, other_attr))
                    /\ \A i \in DOMAIN Items(h, attr) :
                          ValueEq(h, Items(h, attr)[i], Items(h, other_attr)[i])
               ELSE ValueEq(h, attr, other_attr)

(***************************************************************************)
(* Files, the module functions and the methods of DefaultTheme.            *)
(***************************************************************************)
Missing == <<"missing">>
Garbage == <<"garbage">>

RECURSIVE JsonValue(_, _)
\* what json.dump writes for a value: lists and tuples as arrays, dicts as
\* objects; <<"unserializable">> stands for a value json cannot encode
JsonValue(h, v) ==
    CASE IsRef(v) ->
            IF h[v[2]].cls = "list" THEN ListV(h[v[2]].items)
            ELSE IF h[v[2]].cls = "dict" THEN Dict(h[v[2]].items)
            ELSE <<"unserializable">>
      [] TypeOf(v) = "tuple" -> ListV(v[2])
      [] TypeOf(v) = "dict" ->
            LET Object(vals) ==
                    IF \E i \in DOMAIN vals : vals[i] = <<"unserializable">>
                    THEN <<"unserializable">>
                    ELSE Dict([i \in DOMAIN v[2] |-> <<v[2][i][1], vals[i]>>])
            IN Object([i \in DOMAIN v[2] |-> JsonValue(h, v[2][i][2])])
      [] TypeOf(v) \in {"None", "bool", "num", "nan", "str", "rgba", "list"} -> v
      [] OTHER -> <<"unserializable">>

\* load_theme(filename): open, json.load, DefaultTheme.from_dict
load_theme_file(h, e, fs, filename) ==
    IF filename \notin DOMAIN fs \/ fs[filename] = Missing
    THEN [h |-> h, id |-> 0, exc |-> "FileNotFoundError"]
    ELSE IF fs[filename] = Garbage
    THEN [h |-> h, id |-> 0, exc |-> "JSONDecodeError"]
    ELSE from_dict(h, e, "DefaultTheme", fs[filename])

RECURSIVE CopySlots(_, _, _, _, _, _, _)
\* for attr_name in theme.__slots__: setattr(self, attr_name, getattr(theme, attr_name))
\* over the names lo..hi (the range is halved: the first half, then the second)
CopySlots(h, e, self, theme, names, lo, hi) ==
    IF lo > hi THEN h
    ELSE IF lo = hi
    THEN SetAttr(h, e, self, names[lo], GetAttr(h, theme, names[lo]).val).h
    ELSE LET Then(h1, mid) ==
                 IF DOMAIN h1 = {} THEN h1
                 ELSE CopySlots(h1, e, self, theme, names, mid + 1, hi)
         IN Then(CopySlots(h, e, self, theme, names, lo, (lo + hi) \div 2),
                 (lo + hi) \div 2)

\* str.lower() of the theme names the model passes
Lower(s) ==
    CASE s = "Dark" -> "dark"
      [] s = "DOCUMENT" -> "document"
      [] OTHER -> s

\* _NATIVE_THEMES
NativeThemes ==
    [paraview |-> "ParaViewTheme", document |-> "DocumentTheme",
     document_pro |-> "DocumentProTheme", dark |-> "DarkTheme",
     default |-> "DefaultTheme", testing |-> "_TestingTheme"]

\* a load_theme that leaves out the last of the slots
load_theme_all_but_last(h, e, fs, self, theme) ==
    LET Copy(lh, th, names) ==
            [h |-> CopySlots(lh, e, self, th, names, 1, Len(names) - 1), exc |-> NoExc]
        Load(loaded, th) ==
            IF loaded.exc # NoExc THEN [h |-> h, exc |-> loaded.exc]
            ELSE IF ~IsInstance(loaded.h, th, "DefaultTheme")
            THEN [h |-> h, exc |-> "TypeError"]
            ELSE Copy(loaded.h, th[2], SlotsOf(loaded.h[th[2]].cls))
        Loaded(loaded) ==
            Load(loaded, IF TypeOf(theme) = "str" THEN Ref(loaded.id) ELSE theme)
    IN Loaded(IF TypeOf(theme) = "str"
              THEN load_theme_file(h, e, fs, theme[2])
              ELSE [h |-> h, id |-> 0, exc |-> NoExc])

\* a load_theme that takes a string that names a preset for that preset
load_theme_by_name(h, e, fs, self, theme) ==
    LET Copy(lh, th, names) ==
            [h |-> CopySlots(lh, e, self, th, names, 1, Len(names)), exc |-> NoExc]
        Load(loaded, th) ==
            IF loaded.exc # NoExc THEN [h |-> h, exc |-> loaded.exc]
            ELSE IF ~IsInstance(loaded.h, th, "DefaultTheme")
            THEN [h |-> h, exc |-> "TypeError"]
            ELSE Copy(loaded.h, th[2], SlotsOf(loaded.h[th[2]].cls))
        Loaded(loaded) ==
            Load(loaded, IF TypeOf(theme) = "str" THEN Ref(loaded.id) ELSE theme)
        Made(n) == [h |-> n.h, id |-> n.id, exc |-> NoExc]
    IN Loaded(IF TypeOf(theme) = "str" /\ Lower(theme[2]) \in DOMAIN NativeThemes
              THEN Made(NewTheme(h, e, NativeThemes[Lower(theme[2])]))
              ELSE IF TypeOf(theme) = "str"
              THEN load_theme_file(h, e, fs, theme[2])
              ELSE [h |-> h, id |-> 0, exc |-> NoExc])

\* DefaultTheme.load_theme(self, theme): a string is the name of a file to load;
\* then the isinstance check; then the copy of every slot of theme.__slots__
load_theme(h, e, fs, self, theme) ==
    LET Copy(lh, th, names) ==
            [h |-> CopySlots(lh, e, self, th, names, 1, Len(names)), exc |-> NoExc]
        Load(loaded, th) ==
            IF loaded.exc # NoExc THEN [h |-> h, exc |-> loaded.exc]
            ELSE IF ~IsInstance(loaded.h, th, "DefaultTheme")
            THEN [h |-> h, exc |-> "TypeError"]
            ELSE Copy(loaded.h, th[2], SlotsOf(loaded.h[th[2]].cls))
        Loaded(loaded) ==
            Load(loaded, IF TypeOf(theme) = "str" THEN Ref(loaded.id) ELSE theme)
    IN Loaded(IF TypeOf(theme) = "str"
              THEN load_theme_file(h, e, fs, theme[2])
              ELSE [h |-> h, id |-> 0, exc |-> NoExc])

\* a set_plot_theme that does not lower the case of the name
set_plot_theme_case_sensitive(h, e, fs, g, theme) ==
    LET Load(new) == load_theme(new.h, e, fs, g, new.val)
        Made(n) == [h |-> n.h, val |-> Ref(n.id)]
    IN IF TypeOf(theme) = "str" /\ theme[2] \notin DOMAIN NativeThemes
       THEN [h |-> h, exc |-> "ValueError"]
       ELSE IF TypeOf(theme) # "str" /\ ~IsInstance(h, theme, "DefaultTheme")
       THEN [h |-> h, exc |-> "TypeError"]
       ELSE Load(IF TypeOf(theme) = "str"
                 THEN Made(NewTheme(h, e, NativeThemes[theme[2]]))
                 ELSE [h |-> h, val |-> theme])

\* a set_plot_theme that lets the KeyError of the registry through
set_plot_theme_key_error(h, e, fs, g, theme) ==
    LET Load(new) == load_theme(new.h, e, fs, g, new.val)
        Made(n) == [h |-> n.h, val |-> Ref(n.id)]
    IN IF TypeOf(theme) = "str" /\ Lower(theme[2]) \notin DOMAIN NativeThemes
       THEN [h |-> h, exc |-> "KeyError"]
       ELSE IF TypeOf(theme) # "str" /\ ~IsInstance(h, theme, "DefaultTheme")
       THEN [h |-> h, exc |-> "TypeError"]
       ELSE Load(IF TypeOf(theme) = "str"
                 THEN Made(NewTheme(h, e, NativeThemes[Lower(theme[2])]))
                 ELSE [h |-> h, val |-> theme])

\* a set_plot_theme that does nothing when the global theme already has the
\* name asked for
set_plot_theme_skip_same(h, e, fs, g, theme) ==
    LET Load(new) == load_theme(new.h, e, fs, g, new.val)
        Made(n) == [h |-> n.h, val |-> Ref(n.id)]
    IN IF TypeOf(theme) = "str" /\ Lower(theme[2]) \notin DOMAIN NativeThemes
       THEN [h |-> h, exc |-> "ValueError"]
       ELSE IF TypeOf(theme) # "str" /\ ~IsInstance(h, theme, "DefaultTheme")
       THEN [h |-> h, exc |-> "TypeError"]
       ELSE IF TypeOf(theme) = "str" /\ h[g].slots._name = Str(Lower(theme[2]))
       THEN [h |-> h, exc |-> NoExc]
       ELSE Load(IF TypeOf(theme) = "str"
                 THEN Made(NewTheme(h, e, NativeThemes[Lower(theme[2])]))
                 ELSE [h |-> h, val |-> theme])

\* set_plot_theme(theme), pyvista.global_theme being the object `g`: a string
\* is lower-cased and looked up in the registry, and a new instance of the
\* preset is loaded; a theme is loaded as it is; anything else is a TypeError
set_plot_theme(h, e, fs, g, theme) ==
    LET Load(new) == load_theme(new.h, e, fs, g, new.val)
        Made(n) == [h |-> n.h, val |-> Ref(n.id)]
    IN IF TypeOf(theme) = "str" /\ Lower(theme[2]) \notin DOMAIN NativeThemes
       THEN [h |-> h, exc |-> "ValueError"]
       ELSE IF TypeOf(theme) # "str" /\ ~IsInstance(h, theme, "DefaultTheme")
       THEN [h |-> h, exc |-> "TypeError"]
       ELSE Load(IF TypeOf(theme) = "str"
                 THEN Made(NewTheme(h, e, NativeThemes[Lower(theme[2])]))
                 ELSE [h |-> h, val |-> theme])

\* a restore_defaults that runs the initialiser of DefaultTheme on any instance
restore_defaults_of_base(h, e, self) == InitTheme(h, e, self, "DefaultTheme")

\* DefaultTheme.restore_defaults: self.__init__()
restore_defaults(h, e, self) == InitTheme(h, e, self, h[self].cls)

\* DefaultTheme.save(self, filename): the file is truncated when it is opened,
\* so a value json.dump cannot encode leaves a broken file behind
save(h, fs, self, filename) ==
    LET Dump(json) ==
            IF json = <<"unserializable">>
            THEN [fs |-> [fs EXCEPT ![filename] = Garbage], exc |-> "TypeError"]
            ELSE [fs |-> [fs EXCEPT ![filename] = json], exc |-> NoExc]
    IN Dump(JsonValue(h, DelKey(to_dict(h, self), "before_close_callback")))

(***************************************************************************)
(* The state machine.  vars binds the variables of the calling program:    *)
(* global_theme is pyvista.global_theme, a and b are themes of the caller  *)
(* (0 when unbound).  last records the operation just performed.           *)
(***************************************************************************)
UserVars == {"a", "b"}
ThemeVars == {"global_theme"} \cup UserVars
Bound(vs) == {x \in ThemeVars : vs[x] # 0}
Roots(vs) == {vs[x] : x \in Bound(vs)}
\* the objects a mapping returned by to_dict refers to
SnapRefs(d) ==
    IF d = None THEN {}
    ELSE {d[2][i][2][2] : i \in {j \in DOMAIN d[2] : IsRef(d[2][j][2])}}

FileNames == {"theme.json", "bad.json", "half.json"}

\* matplotlib installed or not, os.name 'nt' or not
Envs == {[matplotlib |-> TRUE, nt |-> FALSE], [matplotlib |-> FALSE, nt |-> TRUE]}

Op(op, self, path, key, arg, exc) ==
    [op |-> op, self |-> self, path |-> path, key |-> key, arg |-> arg, exc |-> exc,
     warn |-> <<>>]

\* the files of the caller before the first operation
InitFiles ==
    [f \in FileNames |->
        CASE f = "bad.json" -> Garbage
          [] f = "half.json" ->
                Dict(<< <<"show_edges", Bool(TRUE)>>, <<"opacity", Num(2000)>> >>)
          [] OTHER -> Missing]

\* the classes of the theme the caller holds in `a` at the start ("" for none)
InitClasses == {"", "DefaultTheme", "DarkTheme"}

\* pyvista is imported: global_theme is a new DefaultTheme; the caller holds no
\* theme, or one newly constructed in `a`
Init ==
    /\ env \in Envs
    /\ \E cls \in InitClasses :
          LET Start(g, a) ==
                  /\ heap = a.h
                  /\ vars = [global_theme |-> g.id, a |-> a.id, b |-> 0]
              Held(g) ==
                  Start(g, IF cls = "" THEN [h |-> g.h, id |-> 0]
                           ELSE NewTheme(g.h, env, cls))
          IN Held(NewTheme(<<>>, env, "DefaultTheme"))
    /\ files = InitFiles
    /\ last = Op("init", "", <<>>, "", None, NoExc)
    /\ steps = 0
    /\ pc = 0
    /\ snap = None

\* the effect of one operation of the caller
Effect(h, vs, fs, op) ==
    /\ heap' = Collect(h, Roots(vs) \cup SnapRefs(snap))
    /\ vars' = vs
    /\ files' = fs
    /\ last' = op
    /\ steps' = steps + 1
    /\ UNCHANGED <<env, pc, snap>>

\* the value of an argument expression: <<"new", cls>> is cls() for a group,
\* <<"var", x>> is the variable x, <<"attr", x, k>>
\* is x.k, a display builds a new object
Eval(h, e, vs, x) ==
    CASE x[1] = "new" ->
            LET Made(n) == [h |-> n.h, val |-> Ref(n.id)] IN Made(NewGroup(h, e, x[2]))
      [] x[1] = "attr" -> [h |-> h, val |-> GetAttr(h, vs[x[2]], x[3]).val]
      [] x[1] = "var" -> [h |-> h, val |-> Ref(vs[x[2]])]
      [] OTHER -> Materialize(h, x)

\* x = cls()
Construct(x, cls) ==
    LET Bind(n) == Effect(n.h, [vars EXCEPT ![x] = n.id], files,
                          Op("construct", x, <<>>, cls, None, NoExc))
    IN Bind(NewTheme(heap, env, cls))

\* x.<path>.<key> = <expr>; last.arg records the expression assigned
Assign(x, path, key, expr) ==
    /\ vars[x] # 0
    /\ LET Done(r, w) ==
               Effect(r.h, vars, files,
                      [Op("setattr", x, path, key, expr, r.exc) EXCEPT !.warn = w])
           SetIn(h, id, v) == Done(SetAttr(h, env, id, key, v), Warnings(env, h[id].cls, key, v))
           Set(v) == SetIn(v.h, Resolve(v.h, vars[x], path), v.val)
       IN Set(Eval(heap, env, vars, expr))

\* x.<path>[key] = <expr>; the warnings are those of the setattr it makes
SetItem(x, path, key, expr) ==
    /\ vars[x] # 0
    /\ LET Done(r, w) ==
               Effect(r.h, vars, files,
                      [Op("setitem", x, path, key, expr, r.exc) EXCEPT !.warn = w])
           SetIn(h, id, v) == Done(setitem(h, env, id, key, v), Warnings(env, h[id].cls, key, v))
           Set(v) == SetIn(v.h, Resolve(v.h, vars[x], path), v.val)
       IN Set(Eval(heap, env, vars, expr))

\* x.load_theme(<expr>)
LoadTheme(x, expr) ==
    /\ vars[x] # 0
    /\ LET Done(r, arg) ==
               Effect(r.h, vars, files, Op("load_theme", x, <<>>, "", arg, r.exc))
           Load(v) == Done(load_theme(v.h, env, files, vars[x], v.val), v.val)
       IN Load(Eval(heap, env, vars, expr))

\* pyvista.set_plot_theme(<expr>)
SetPlotTheme(expr) ==
    LET Done(r, arg) ==
            Effect(r.h, vars, files,
                   Op("set_plot_theme", "global_theme", <<>>, "", arg, r.exc))
        Load(v) == Done(set_plot_theme(v.h, env, files, vars.global_theme, v.val), v.val)
    IN Load(Eval(heap, env, vars, expr))

\* x.restore_defaults()
RestoreDefaults(x) ==
    /\ vars[x] # 0
    /\ Effect(restore_defaults(heap, env, vars[x]), vars, files,
              Op("restore_defaults", x, <<>>, "", None, NoExc))

\* b = cls.from_dict(x.to_dict()); b stays as it was when from_dict raises
RoundTrip(x, cls) ==
    /\ vars[x] # 0
    /\ LET Bind(r) ==
               Effect(r.h, IF r.exc = NoExc THEN [vars EXCEPT !.b = r.id] ELSE vars,
                      files, Op("from_dict", x, <<>>, cls, None, r.exc))
       IN Bind(from_dict(heap, env, cls, to_dict(heap, vars[x])))

\* x.save(filename)
Save(x, filename) ==
    /\ vars[x] # 0
    /\ LET Done(r) == Effect(heap, vars, r.fs, Op("save", x, <<>>, filename, None, r.exc))
       IN Done(save(heap, files, vars[x], filename))

(***************************************************************************)
(* Spec: the life of themes.  The caller constructs themes, assigns some   *)
(* representative fields, loads, selects presets, restores, converts.      *)
(***************************************************************************)
SomeAssigns ==
    { <<<<>>, "opacity", Num(500)>>,
      <<<<>>, "opacity", Num(2000)>>,
      <<<<>>, "background", Str("red")>>,
      <<<<>>, "before_close_callback", Callable("f")>>,
      <<<<"font">>, "size", Num(20000)>>,
      <<<<"slider_styles", "classic">>, "cap_width", Num(500)>>,
      <<<<>>, "colorbar_horizontal", <<"new", "_ColorbarConfig">> >>,
      <<<<>>, "font", <<"new", "_Font">> >>,
      <<<<>>, "font", <<"attr", "global_theme", "font">> >> }

ThemeArgs(vs) ==
    {<<"var", x>> : x \in Bound(vs)} \cup {Str("theme.json"), Str("bad.json"),
     Str("half.json"), Str("dark"), Num(5000), None}

PlotThemeArgs(vs) ==
    {<<"var", x>> : x \in Bound(vs) \ {"global_theme"}} \cup
    {Str(k) : k \in DOMAIN NativeThemes} \cup
    {Str("Dark"), Str("nonexistent"), Num(5000), None}

\* the variables the caller operates on; b only receives the result of from_dict
Targets == {"global_theme", "a"}

\* the caller has operations left
More == steps < MaxSteps

Next ==
    \/ More /\ \E cls \in ThemeClasses : Construct("a", cls)
    \/ More /\ \E x \in Targets, s \in SomeAssigns : Assign(x, s[1], s[2], s[3])
    \/ More /\ \E x \in Targets : \E arg \in ThemeArgs(vars) : LoadTheme(x, arg)
    \/ More /\ \E arg \in PlotThemeArgs(vars) : SetPlotTheme(arg)
    \/ More /\ \E x \in Targets : RestoreDefaults(x)
    \/ More /\ \E x \in Targets \cap Bound(vars) :
                  \E cls \in {heap[vars[x]].cls, "DefaultTheme"} : RoundTrip(x, cls)
    \/ More /\ \E x \in Targets : Save(x, "theme.json")

Spec == Init /\ [][Next]_allvars

(***************************************************************************)
(* The properties of loading, selecting, restoring and converting themes,  *)
(* checked under Spec.                                                     *)
(***************************************************************************)
\* the global theme
GlobalTheme == heap[vars.global_theme]
\* the theme the last operation was called on
LastTheme == heap[vars[last.self]]

\* every field of x equals the same field of y
FieldsEq(h, x, y) ==
    \A s \in SlotSet(h[x].cls) : ValueEq(h, h[x].slots[s], h[y].slots[s])

\* the heap with the before_close_callback of the themes x and y left out
WithoutCallback(h, x, y) ==
    [i \in DOMAIN h |->
        IF i \in {x, y}
        THEN [h[i] EXCEPT !.slots._before_close_callback = None]
        ELSE h[i]]

\* C1: round trip.  With matplotlib installed, for a theme t of any class in
\* any state its setters lead to, type(t).from_dict(t.to_dict()) returns a
\* theme that compares equal to t, before_close_callback left out.
C1_RoundTrip ==
    (env.matplotlib /\ last.op = "from_dict" /\ last.key = LastTheme.cls) =>
        /\ last.exc = NoExc
        /\ ConfigEq(WithoutCallback(heap, vars.b, vars[last.self]),
                    vars.b, vars[last.self])

\* C2: after target.load_theme(src) or set_plot_theme(src) with src a theme,
\* every slot of the target holds the value of the same slot of src, whatever
\* the target held before.
C2_LoadCopiesEveryField ==
    (last.op \in {"load_theme", "set_plot_theme"} /\ IsRef(last.arg)
        /\ last.exc = NoExc) =>
        \A s \in SlotSet("DefaultTheme") :
            LastTheme.slots[s] = heap[last.arg[2]].slots[s]

\* the dark theme of the caller, its opacity changed, was loaded into the
\* global theme
C2_Witness ==
    /\ last.op = "load_theme" /\ last.self = "global_theme"
    /\ last.arg = Ref(vars.a) /\ last.exc = NoExc
    /\ heap[vars.a].cls = "DarkTheme"
    /\ heap[vars.a].slots._opacity = Num(500)
    /\ GlobalTheme.slots._opacity = Num(500)
    /\ GlobalTheme.slots._name = Str("dark")

\* the theme objects of the heap
Themes(h) == {i \in DOMAIN h : h[i].cls \in ThemeClasses}

\* the groups a theme holds: the values of its group properties, and the two
\* styles of its slider_styles
GroupsOf(h, t) ==
    LET direct == {h[t].slots[SlotName(g)][2] : g \in ThemeGroupProperties} IN
    direct \cup UNION {IF h[i].cls = "_SliderConfig"
                       THEN {h[i].slots._classic[2], h[i].slots._modern[2]}
                       ELSE {} : i \in direct}

\* C3: exclusive ownership.  In every reachable state no group is held by two
\* distinct themes.
C3_ExclusiveOwnership ==
    \A t1, t2 \in Themes(heap) :
        t1 # t2 => GroupsOf(heap, t1) \cap GroupsOf(heap, t2) = {}

\* C4 as it is stated: after restore_defaults the theme, of whatever class,
\* equals a freshly constructed DefaultTheme.
C4_RestoreEqualsDefaultTheme ==
    last.op = "restore_defaults" =>
        LET n == NewTheme(heap, env, "DefaultTheme") IN
        ConfigEq(n.h, vars[last.self], n.id)

\* C4 as amended: after restore_defaults the theme equals a freshly
\* constructed instance of its own class, and that instance equals it.
C4_RestoreEqualsFreshOfClass ==
    last.op = "restore_defaults" =>
        LET n == NewTheme(heap, env, LastTheme.cls) IN
        /\ ConfigEq(n.h, vars[last.self], n.id)
        /\ ConfigEq(n.h, n.id, vars[last.self])

\* a dark theme was changed and then restored: it is dark again
C4_Witness ==
    /\ last.op = "restore_defaults" /\ steps = 2
    /\ LastTheme.cls = "DarkTheme"
    /\ LastTheme.slots._name = Str("dark")
    /\ LastTheme.slots._opacity = Num(1000)

\* the class each name selects, as the registry of presets is specified
C5_Presets ==
    [paraview |-> "ParaViewTheme", document |-> "DocumentTheme",
     document_pro |-> "DocumentProTheme", dark |-> "DarkTheme",
     default |-> "DefaultTheme", testing |-> "_TestingTheme", Dark |-> "DarkTheme"]

\* C5: set_plot_theme(s), s a string whose lower-cased form is the name of a
\* preset, succeeds, and afterwards every field of the global theme equals
\* the same field of a freshly constructed instance of that preset.
C5_PresetByName ==
    (last.op = "set_plot_theme" /\ TypeOf(last.arg) = "str"
        /\ last.arg[2] \in DOMAIN C5_Presets) =>
        /\ last.exc = NoExc
        /\ LET n == NewTheme(heap, env, C5_Presets[last.arg[2]]) IN
           FieldsEq(n.h, vars.global_theme, n.id)

\* the name Dark selected the dark preset
C5_Witness ==
    /\ last.op = "set_plot_theme" /\ last.arg = Str("Dark") /\ last.exc = NoExc
    /\ GlobalTheme.slots._name = Str("dark")
    /\ GlobalTheme.slots._background = C("black")

\* the theme x and every object it holds are in heap' as they are in heap
Untouched(x) ==
    \A i \in Reach(heap, {vars[x]}) : i \in DOMAIN heap' /\ heap'[i] = heap[i]

\* C6: set_plot_theme with a string that names no preset raises a
\* ValueError, with a value that is neither a string nor a theme a
\* TypeError, and in both cases the global theme is left as it was.
C6_PlotThemeErrors ==
    [][(last'.op = "set_plot_theme" /\ ~IsRef(last'.arg)) =>
          /\ (TypeOf(last'.arg) = "str" /\ last'.arg[2] \notin DOMAIN C5_Presets)
                => (last'.exc = "ValueError" /\ Untouched("global_theme"))
          /\ TypeOf(last'.arg) # "str"
                => (last'.exc = "TypeError" /\ Untouched("global_theme"))]_allvars

\* an unknown name was rejected after the global theme had been changed
C6_Witness ==
    /\ last.op = "set_plot_theme" /\ last.arg = Str("nonexistent")
    /\ last.exc = "ValueError"
    /\ GlobalTheme.slots._opacity = Num(500)

\* C7: load_theme(x) with x neither a string nor a theme raises a TypeError
\* and leaves the target as it was; a string is taken for a file name only,
\* so the name of a preset that is no file raises FileNotFoundError; and
\* whenever the load of a file fails the target is left as it was.
C7_LoadThemeErrors ==
    [][last'.op = "load_theme" =>
          /\ (~IsRef(last'.arg) /\ TypeOf(last'.arg) # "str")
                => (last'.exc = "TypeError" /\ Untouched(last'.self))
          /\ (TypeOf(last'.arg) = "str" /\ last'.arg[2] \notin DOMAIN files)
                => last'.exc = "FileNotFoundError"
          /\ (TypeOf(last'.arg) = "str" /\ last'.exc # NoExc)
                => Untouched(last'.self)]_allvars

\* the name of the dark preset was given to load_theme of a changed theme
C7_Witness ==
    /\ last.op = "load_theme" /\ last.arg = Str("dark")
    /\ last.exc = "FileNotFoundError"
    /\ LastTheme.slots._opacity = Num(500)

(***************************************************************************)
(* SpecSet: the caller assigns a value of any kind to a property of the    *)
(* global theme, of one of its groups or of one of its slider styles.      *)
(***************************************************************************)
\* the number of assignments of one behaviour
MaxAssigns == 1

\* the values assigned: None, booleans, NaN, numbers around the bounds, strings,
\* a colour tuple, a callable, lists, dicts and new groups
SetValues ==
    << None, Bool(TRUE), Bool(FALSE), NaN,
       Num(-500), Num(0), Num(500), Num(1000), Num(1500), Num(3000),
       Str("0.5"), Str("red"), Str("bogus"), Str("viridis"), Str("arial"),
       Str("msaa"), Str("vertical"), Str("smart"), Str("trame"), Str("default"),
       Str("xy"),
       RGB(255, 255, 255), Callable("f"),
       ListV(<<>>), ListV(<<Str("a")>>), ListV(<<Num(-1000)>>),
       ListV(<<Num(0), Num(0)>>), ListV(<<Num(400000), Num(300000)>>),
       ListV(<<Num(-1000), Num(5000)>>), ListV(<<Num(5000), Num(-1000)>>),
       ListV(<<Num(-1000), Str("a")>>), ListV(<<Str("a"), Num(-1000)>>),
       ListV(<<Num(1000), Num(2000), Num(-3000)>>),
       Dict(<<>>),
       Dict(<< <<"position", ListV(<<Num(0), Num(0), Num(1000)>>)>> >>),
       Dict(<< <<"position", ListV(<<Num(0), Num(0), Num(1000)>>)>>,
               <<"viewup", ListV(<<Num(0), Num(1000), Num(0)>>)>> >>),
       <<"new", "_Font">>, <<"new", "_AxesConfig">>, <<"new", "_ColorbarConfig">>,
       <<"new", "_TrameConfig">>, <<"new", "_DepthPeelingConfig">>,
       <<"new", "_SilhouetteConfig">>, <<"new", "_SliderConfig">>,
       <<"new", "_SliderStyleConfig">>, <<"new", "_LightingConfig">> >>

\* the properties assigned, each the path to its object and its name
SetTargets ==
    {<<<<>>, k>> : k \in Properties("DefaultTheme") \cup Aliases("DefaultTheme")}
    \cup UNION {{<<<<g>>, k>> : k \in Properties(GroupClassOf(g))} :
                    g \in ThemeGroupProperties}
    \cup {<<<<"slider_styles", c>>, k>> :
              c \in {"classic", "modern"}, k \in Properties("_SliderStyleConfig")}

\* pyvista is imported, the caller holds no theme of its own
InitSet ==
    /\ env \in Envs
    /\ LET Start(g) == /\ heap = g.h
                       /\ vars = [global_theme |-> g.id, a |-> 0, b |-> 0]
       IN Start(NewTheme(<<>>, env, "DefaultTheme"))
    /\ files = InitFiles
    /\ last = Op("init", "", <<>>, "", None, NoExc)
    /\ steps = 0
    /\ pc = 0
    /\ snap = None

\* the dicts given to from_dict, each with the class it is called on: the
\* empty dict, a key no class knows and the name of a method for every class,
\* then fields of the class, alone and followed by an unknown key
FromDictArgs ==
    {<<c, d>> : c \in ConfigClasses,
                d \in {Dict(<<>>), Dict(<< <<"bogus", Num(1000)>> >>),
                       Dict(<< <<"to_dict", Num(1000)>> >>)}}
    \cup {<<c, d>> : c \in ThemeClasses,
                     d \in {Dict(<< <<"opacity", Num(500)>> >>),
                            Dict(<< <<"opacity", Num(500)>>, <<"bogus", Num(1000)>> >>),
                            Dict(<< <<"save", Str("xy")>> >>),
                            Dict(<< <<"font", Dict(<< <<"size", Num(20000)>> >>)>> >>),
                            Dict(<< <<"font", Dict(<< <<"bogus", Num(1000)>> >>)>> >>)}}
    \cup {<<"_Font", Dict(<< <<"size", Num(20000)>> >>)>>,
          <<"_AxesConfig", Dict(<< <<"show", Bool(FALSE)>>, <<"bogus", Num(1000)>> >>)>>}

\* b = cls.from_dict(d): b is bound to the instance unless from_dict raises
FromDict(cls, d) ==
    LET Bind(r) ==
            Effect(r.h, IF r.exc = NoExc THEN [vars EXCEPT !.b = r.id] ELSE vars,
                   files, Op("from_dict", "b", <<>>, cls, d, r.exc))
    IN Bind(from_dict(heap, env, cls, d))

\* a = cls(); b = cls.from_dict(a.to_dict()); b stays as it was when
\* from_dict raises
NewRoundTrip(cls) ==
    LET Bind(r, id) ==
            Effect(r.h, IF r.exc = NoExc THEN [vars EXCEPT !.a = id, !.b = r.id]
                                         ELSE [vars EXCEPT !.a = id],
                   files, Op("new_round_trip", "a", <<>>, cls, None, r.exc))
        Convert(n) == Bind(from_dict(n.h, env, cls, to_dict(n.h, n.id)), n.id)
    IN Convert(New(heap, env, cls))

NextSet ==
    \/ /\ steps < MaxAssigns
       /\ \E t \in SetTargets, i \in DOMAIN SetValues :
             Assign("global_theme", t[1], t[2], SetValues[i])
    \/ /\ steps < MaxAssigns
       /\ \E c \in FromDictArgs : FromDict(c[1], c[2])
    \/ /\ steps < MaxAssigns
       /\ \E c \in GroupClasses : NewRoundTrip(c)
    \/ /\ steps < MaxAssigns
       /\ \E t \in SetTargets, i \in DOMAIN SetValues :
             SetItem("global_theme", t[1], t[2], SetValues[i])

SpecSet == InitSet /\ [][NextSet]_allvars

(***************************************************************************)
(* SpecFile: the caller changes fields of the global theme, saves it and   *)
(* loads themes from files.                                                *)
(***************************************************************************)
\* the number of operations of one behaviour
MaxFileSteps == 3

NextFile ==
    \/ /\ steps < MaxFileSteps
       /\ \E s \in SomeAssigns : Assign("global_theme", s[1], s[2], s[3])
    \/ /\ steps < MaxFileSteps
       /\ Save("global_theme", "theme.json")
    \/ /\ steps < MaxFileSteps
       /\ \E f \in FileNames : LoadTheme("global_theme", Str(f))

SpecFile == InitSet /\ [][NextFile]_allvars

(***************************************************************************)
(* SpecDict: the caller takes the to_dict of the global theme, changes the *)
(* mapping or a value inside it, and assigns fields of the theme.          *)
(***************************************************************************)
MaxDictSteps == 3

\* d = x.to_dict()
ToDict(x) ==
    /\ vars[x] # 0
    /\ snap' = to_dict(heap, vars[x])
    /\ heap' = heap
    /\ last' = Op("to_dict", x, <<>>, "", None, NoExc)
    /\ steps' = steps + 1
    /\ UNCHANGED <<vars, files, env, pc>>

\* d[k] = v for path <<k>>, d[k][j] = v for path <<k, j>>, d the mapping
\* to_dict returned; an index of a list counts from 1
DictSetItem(path, v) ==
    /\ snap # None
    /\ LET Done(h, d) ==
               /\ heap' = h
               /\ snap' = d
               /\ last' = Op("dict_setitem", "", path, "", v, NoExc)
           In(obj) ==
               IF obj.cls = "list" THEN [obj EXCEPT !.items[path[2]] = v]
               ELSE [obj EXCEPT !.items = SetKey(Dict(obj.items), path[2], v)[2]]
           Inner(held) ==
               IF IsRef(held) THEN Done([heap EXCEPT ![held[2]] = In(heap[held[2]])], snap)
               ELSE IF TypeOf(held) = "list"
               THEN Done(heap, SetKey(snap, path[1], ListV([held[2] EXCEPT ![path[2]] = v])))
               ELSE Done(heap, SetKey(snap, path[1], SetKey(held, path[2], v)))
       IN IF Len(path) = 1 THEN Done(heap, SetKey(snap, path[1], v))
          ELSE Inner(Lookup(snap, path[1]))
    /\ steps' = steps + 1
    /\ UNCHANGED <<vars, files, env, pc>>

\* the changes the caller makes to the mapping
DictChanges ==
    { <<<<"opacity">>, Num(500)>>,
      <<<<"window_size">>, ListV(<<Num(400000), Num(400000)>>)>>,
      <<<<"window_size", 1>>, Num(5000)>>,
      <<<<"camera", "viewup">>, ListV(<<Num(0), Num(1000), Num(0)>>)>>,
      <<<<"font", "size">>, Num(20000)>>,
      <<<<"axes", "show">>, Bool(FALSE)>> }

NextDict ==
    \/ /\ steps < MaxDictSteps
       /\ ToDict("global_theme")
    \/ /\ steps < MaxDictSteps
       /\ \E c \in DictChanges : DictSetItem(c[1], c[2])
    \/ /\ steps < MaxDictSteps
       /\ \E s \in SomeAssigns : Assign("global_theme", s[1], s[2], s[3])

SpecDict == InitSet /\ [][NextDict]_allvars

(***************************************************************************)
(* SpecThreads: one thread runs global_theme.load_theme(a), one write of   *)
(* its loop at a time, while a second thread reads and assigns fields of   *)
(* the global theme.  pc is the number of fields the loop has written.     *)
(***************************************************************************)
\* the number of operations of the second thread
MaxThreadSteps == 1

\* load_theme as one indivisible copy of every field
load_theme_step_atomic(x, src) ==
    /\ vars[x] # 0 /\ vars[src] # 0
    /\ pc < Len(SlotsOf(heap[vars[src]].cls))
    /\ LET Done(r) ==
               /\ heap' = Collect(r.h, Roots(vars))
               /\ last' = Op("load_theme_step", x, <<>>, "_opacity", Ref(vars[src]), r.exc)
       IN Done(load_theme(heap, env, files, vars[x], Ref(vars[src])))
    /\ pc' = Len(SlotsOf(heap[vars[src]].cls))
    /\ UNCHANGED <<vars, files, env, steps, snap>>

\* one turn of the loop of x.load_theme(src), src a theme:
\* setattr(self, attr_name, getattr(theme, attr_name)) for the next name
LoadThemeStep(x, src) ==
    /\ vars[x] # 0 /\ vars[src] # 0
    /\ pc < Len(SlotsOf(heap[vars[src]].cls))
    /\ LET Done(r, name) ==
               /\ heap' = Collect(r.h, Roots(vars))
               /\ last' = Op("load_theme_step", x, <<>>, name, Ref(vars[src]), r.exc)
           Step(name) ==
               Done(SetAttr(heap, env, vars[x], name, GetAttr(heap, vars[src], name).val),
                    name)
       IN Step(SlotsOf(heap[vars[src]].cls)[pc + 1])
    /\ pc' = pc + 1
    /\ UNCHANGED <<vars, files, env, steps, snap>>

\* x.<key> is read; last.arg records the value read
ReadField(x, key) ==
    /\ vars[x] # 0
    /\ LET Done(r) == Effect(heap, vars, files, Op("getattr", x, <<>>, key, r.val, r.exc))
       IN Done(GetAttr(heap, vars[x], key))

\* the fields the second thread reads
FieldsRead == {"name", "background", "opacity"}

\* the caller holds a theme in `a`
InitThreads == Init /\ vars.a # 0

NextThreads ==
    \/ LoadThemeStep("global_theme", "a")
    \/ /\ steps < MaxThreadSteps
       /\ \E k \in FieldsRead : ReadField("global_theme", k)
    \/ /\ steps < MaxThreadSteps
       /\ \E s \in SomeAssigns : Assign("global_theme", s[1], s[2], s[3])

SpecThreads == InitThreads /\ [][NextThreads]_allvars

(***************************************************************************)
(* The properties of the setters, checked under SpecSet.                   *)
(***************************************************************************)
\* the object the last assignment was made to
LastObject == heap[Resolve(heap, vars[last.self], last.path)]

\* C8: no partial apply.  An assignment to a property of the theme, of a group
\* or of a slider style that raises leaves the theme and every object it
\* holds exactly as they were before the assignment.
C8_NoPartialApply ==
    [][(last'.op = "setattr" /\ last'.exc # NoExc) =>
          \A i \in Reach(heap, {vars[last'.self]}) :
              i \in DOMAIN heap' /\ heap'[i] = heap[i]]_allvars

\* an assignment of a list to window_size was rejected with a ValueError
C8_Witness ==
    /\ last.op = "setattr" /\ last.key = "window_size"
    /\ last.arg = ListV(<<Num(5000), Num(-1000)>>)
    /\ last.exc = "ValueError"

\* a number of the closed interval [0, 1]
InUnit(v) == TypeOf(v) = "num" /\ v[2] >= 0 /\ v[2] <= 1000

\* the opacity-like properties: the class and the name of each
OpacityLike ==
    {<<"DefaultTheme", "opacity">>, <<"_SilhouetteConfig", "opacity">>,
     <<"_SilhouetteConfig", "decimate">>}

\* C9: the opacity-like fields.  Assigning a number below 0 or above 1 raises
\* a ValueError; assigning a number of [0, 1] succeeds and the field reads back
\* equal to it; and in every reachable state the opacity of a theme and the
\* opacity of a silhouette lie in [0, 1], the decimate of a silhouette lies in
\* [0, 1] or is None.
C9_OpacityInUnitInterval ==
    /\ (/\ last.op = "setattr"
        /\ <<LastObject.cls, last.key>> \in OpacityLike
        /\ TypeOf(last.arg) = "num")
       => IF InUnit(last.arg)
          THEN last.exc = NoExc /\ LastObject.slots[SlotName(last.key)] = last.arg
          ELSE last.exc = "ValueError"
    /\ \A i \in DOMAIN heap :
          /\ heap[i].cls \in ThemeClasses => InUnit(heap[i].slots._opacity)
          /\ heap[i].cls = "_SilhouetteConfig" =>
                /\ InUnit(heap[i].slots._opacity)
                /\ heap[i].slots._decimate = None \/ InUnit(heap[i].slots._decimate)

PositiveInt(v) == TypeOf(v) = "num" /\ v[2] > 0 /\ v[2] % 1000 = 0

\* C11: in every reachable state the window_size of a theme is a pair (a list
\* or a tuple of length 2) of positive integers.
C11_WindowSizePositivePair ==
    \A t \in Themes(heap) :
        /\ IsSeqValue(heap, heap[t].slots._window_size)
        /\ Len(Items(heap, heap[t].slots._window_size)) = 2
        /\ \A i \in 1..2 : PositiveInt(Items(heap, heap[t].slots._window_size)[i])

\* the integer part of a number (in thousandths): truncation toward zero
IntegerPart(n) == IF n >= 0 THEN n - (n % 1000) ELSE -((-n) - ((-n) % 1000))

\* C12: image_scale.  Assigning a number whose integer part is below 1 raises a
\* ValueError and leaves the field as it was; assigning any other number stores
\* its integer part; and in every reachable state the image_scale of a theme
\* is an integer that is at least 1.
C12_ImageScale ==
    /\ [](\A t \in Themes(heap) :
             PositiveInt(heap[t].slots._image_scale))
    /\ [][(/\ last'.op = "setattr" /\ last'.path = <<>> /\ last'.key = "image_scale"
           /\ TypeOf(last'.arg) = "num") =>
             IF IntegerPart(last'.arg[2]) < 1000
             THEN /\ last'.exc = "ValueError"
                  /\ heap'[vars'.global_theme].slots._image_scale
                        = heap[vars.global_theme].slots._image_scale
             ELSE /\ last'.exc = NoExc
                  /\ heap'[vars'.global_theme].slots._image_scale
                        = Num(IntegerPart(last'.arg[2]))]_allvars

\* 1.5 was assigned to image_scale and 1 was stored
C12_Witness ==
    /\ last.op = "setattr" /\ last.key = "image_scale" /\ last.arg = Num(1500)
    /\ last.exc = NoExc
    /\ GlobalTheme.slots._image_scale = Num(1000)

\* the value is a dict that holds the keys 'position' and 'viewup'
IsCamera(h, v) ==
    /\ IsRef(v) /\ h[v[2]].cls = "dict"
    /\ {"position", "viewup"} \subseteq Keys(Dict(h[v[2]].items))

\* C13: camera.  Assigning a value that is not a dict raises a TypeError, a
\* dict without 'position' or without 'viewup' raises a KeyError, both leave
\* the field as it was, and any other dict is stored; in every reachable state
\* the camera of a theme is a dict that holds both keys.
C13_Camera ==
    /\ [](\A t \in Themes(heap) : IsCamera(heap, heap[t].slots._camera))
    /\ [][(last'.op = "setattr" /\ last'.path = <<>> /\ last'.key = "camera") =>
             IF TypeOf(last'.arg) # "dict"
             THEN /\ last'.exc = "TypeError"
                  /\ heap'[vars'.global_theme].slots._camera
                        = heap[vars.global_theme].slots._camera
             ELSE IF ~({"position", "viewup"} \subseteq Keys(last'.arg))
             THEN /\ last'.exc = "KeyError"
                  /\ heap'[vars'.global_theme].slots._camera
                        = heap[vars.global_theme].slots._camera
             ELSE /\ last'.exc = NoExc
                  /\ heap'[heap'[vars'.global_theme].slots._camera[2]].items
                        = last'.arg[2]]_allvars

\* a dict that holds 'position' but not 'viewup' was assigned to camera
C13_Witness ==
    /\ last.op = "setattr" /\ last.key = "camera" /\ TypeOf(last.arg) = "dict"
    /\ Keys(last.arg) = {"position"}
    /\ last.exc = "KeyError"
    /\ IsCamera(heap, GlobalTheme.slots._camera)

\* the kind of group the property `key` of the object at `path` accepts
GroupKind(path, key) ==
    IF path = <<>> THEN GroupClassOf(key) ELSE "_SliderStyleConfig"
\* the assignments to a nested-group property of the theme or of its slider_styles
GroupAssignment(op) ==
    /\ op.op = "setattr"
    /\ \/ op.path = <<>> /\ op.key \in ThemeGroupProperties
       \/ op.path = <<"slider_styles">> /\ op.key \in {"classic", "modern"}

\* C14: nested groups.  Assigning to a nested-group property a value that is
\* not a group of the kind the property accepts raises a TypeError and the
\* group held before stays in place; a group of that kind is stored; and in
\* every reachable state each such property of a theme, and classic and
\* modern of its slider_styles, holds a group of its kind.
C14_NestedGroups ==
    /\ [](\A t \in Themes(heap) :
            /\ \A g \in ThemeGroupProperties :
                  ClassOf(heap, heap[t].slots[SlotName(g)]) = GroupClassOf(g)
            /\ \A c \in {"_classic", "_modern"} :
                  ClassOf(heap, heap[heap[t].slots._slider_styles[2]].slots[c])
                      = "_SliderStyleConfig")
    /\ [][GroupAssignment(last') =>
            LET o == Resolve(heap, vars.global_theme, last'.path)
                slot == SlotName(last'.key)
            IN IF last'.arg # <<"new", GroupKind(last'.path, last'.key)>>
               THEN /\ last'.exc = "TypeError"
                    /\ heap'[o].slots[slot] = heap[o].slots[slot]
                    /\ heap'[heap[o].slots[slot][2]] = heap[heap[o].slots[slot][2]]
               ELSE /\ last'.exc = NoExc
                    /\ heap'[o].slots[slot] # heap[o].slots[slot]
                    /\ ClassOf(heap', heap'[o].slots[slot])
                          = GroupKind(last'.path, last'.key)]_allvars

\* a _Font was assigned to axes: a group, but not of the kind axes accepts
C14_Witness ==
    /\ last.op = "setattr" /\ last.path = <<>> /\ last.key = "axes"
    /\ last.arg = <<"new", "_Font">>
    /\ last.exc = "TypeError"
    /\ ClassOf(heap, GlobalTheme.slots._axes) = "_AxesConfig"

\* the closed set of each of the three fields
ClosedSet(key) ==
    CASE key = "volume_mapper" ->
            {Str("fixed_point"), Str("gpu"), Str("open_gl"), Str("smart")}
      [] key = "colorbar_orientation" -> {Str("vertical"), Str("horizontal")}
      [] key = "anti_aliasing" -> {Str("ssaa"), Str("msaa"), Str("fxaa"), None}
\* the assignments to one of the three fields of the theme
ClosedSetAssignment(op) ==
    /\ op.op = "setattr" /\ op.path = <<>>
    /\ op.key \in {"volume_mapper", "colorbar_orientation", "anti_aliasing"}
\* in every theme each of the three fields is a member of its set
InClosedSets ==
    \A t \in Themes(heap) :
        \A k \in {"volume_mapper", "colorbar_orientation", "anti_aliasing"} :
            heap[t].slots[SlotName(k)] \in ClosedSet(k)

\* C15, as stated: assigning to volume_mapper, colorbar_orientation or
\* anti_aliasing any value outside the closed set of the field raises a
\* ValueError and leaves the field unchanged, and in every reachable state each
\* of the three fields is a member of its set.
C15_ClosedSetsValueError ==
    /\ []InClosedSets
    /\ [][(ClosedSetAssignment(last') /\ last'.arg \notin ClosedSet(last'.key)) =>
            /\ last'.exc = "ValueError"
            /\ heap'[vars'.global_theme].slots[SlotName(last'.key)]
                  = heap[vars.global_theme].slots[SlotName(last'.key)]]_allvars

\* C15, amended: a value outside the closed set raises a ValueError and leaves
\* the field unchanged, except that anti_aliasing maps a boolean to a member
\* of its set ('fxaa' for True, None for False) and stores it, and raises a
\* TypeError instead for any other value that is not a string; a member of the
\* set is stored; and in every reachable state each of the three fields is a
\* member of its set.
C15_ClosedSets ==
    /\ []InClosedSets
    /\ [][ClosedSetAssignment(last') =>
            LET new == heap'[vars'.global_theme].slots[SlotName(last'.key)]
                old == heap[vars.global_theme].slots[SlotName(last'.key)]
            IN IF last'.arg \in ClosedSet(last'.key)
               THEN last'.exc = NoExc /\ new = last'.arg
               ELSE IF last'.key = "anti_aliasing" /\ TypeOf(last'.arg) = "bool"
               THEN /\ last'.exc = NoExc
                    /\ new = (IF last'.arg[2] THEN Str("fxaa") ELSE None)
               ELSE IF last'.key = "anti_aliasing" /\ TypeOf(last'.arg) # "str"
               THEN last'.exc = "TypeError" /\ new = old
               ELSE last'.exc = "ValueError" /\ new = old]_allvars

\* a number was assigned to anti_aliasing: a TypeError, the field unchanged
C15_Witness ==
    /\ last.op = "setattr" /\ last.path = <<>> /\ last.key = "anti_aliasing"
    /\ TypeOf(last.arg) = "num"
    /\ last.exc = "TypeError"
    /\ GlobalTheme.slots._anti_aliasing = None

\* the assignments to anti_aliasing and to its deprecated alias
AntiAliasingAssignment(op) ==
    op.op = "setattr" /\ op.path = <<>> /\ op.key \in {"anti_aliasing", "antialiasing"}
\* the warning was emitted by the operation
Warned(op, w) == \E i \in DOMAIN op.warn : op.warn[i] = w

\* C16: legacy anti-aliasing.  Assigning True to anti_aliasing stores 'fxaa' and
\* assigning False stores None, each with a deprecation warning and without an
\* error.  The alias antialiasing reads the value of anti_aliasing, and an
\* assignment to it emits a deprecation warning and has the outcome of the
\* same assignment to anti_aliasing: a member of the closed set is stored, a
\* boolean is mapped and stored, any other string raises a ValueError and any
\* other value a TypeError, the field unchanged.
C16_LegacyAntiAliasing ==
    /\ [](\A t \in Themes(heap) :
             GetAttr(heap, t, "antialiasing") = Ok(heap[t].slots._anti_aliasing))
    /\ [][AntiAliasingAssignment(last') =>
            LET new == heap'[vars'.global_theme].slots._anti_aliasing
                old == heap[vars.global_theme].slots._anti_aliasing
                v == last'.arg
            IN /\ TypeOf(v) = "bool" =>
                     /\ last'.exc = NoExc
                     /\ new = (IF v[2] THEN Str("fxaa") ELSE None)
                     /\ Warned(last', "PyVistaDeprecationWarning")
               /\ last'.key = "antialiasing" =>
                     /\ Warned(last', "PyVistaDeprecationWarning")
                     /\ CASE v \in {Str("ssaa"), Str("msaa"), Str("fxaa"), None} ->
                                last'.exc = NoExc /\ new = v
                          [] TypeOf(v) = "bool" -> last'.exc = NoExc
                          [] TypeOf(v) = "str" -> last'.exc = "ValueError" /\ new = old
                          [] OTHER -> last'.exc = "TypeError" /\ new = old
               /\ last'.key = "anti_aliasing" /\ TypeOf(v) # "bool" =>
                     ~Warned(last', "PyVistaDeprecationWarning")]_allvars

\* True was assigned to the alias antialiasing: 'fxaa' is stored, after the
\* warning of the alias and the warning of the boolean form
C16_Witness ==
    /\ last.op = "setattr" /\ last.key = "antialiasing" /\ last.arg = Bool(TRUE)
    /\ last.exc = NoExc
    /\ last.warn = <<"PyVistaDeprecationWarning", "PyVistaDeprecationWarning">>
    /\ GlobalTheme.slots._anti_aliasing = Str("fxaa")
    /\ GetAttr(heap, vars.global_theme, "antialiasing").val = Str("fxaa")

(***************************************************************************)
(* Properties of Spec: equality and the conversion to a dict.              *)
(***************************************************************************)
\* the config groups of the heap: the themes and the groups they hold
Configs(h) == {i \in DOMAIN h : h[i].cls \in ConfigClasses}

\* the field s of x compares equal to the field s of y, a list or a tuple
\* element by element
FieldEqual(h, x, y, s) ==
    IF IsSeqValue(h, h[x].slots[s]) /\ IsSeqValue(h, h[y].slots[s])
    THEN /\ Len(Items(h, h[x].slots[s])) = Len(Items(h, h[y].slots[s]))
         /\ \A i \in DOMAIN Items(h, h[x].slots[s]) :
               ValueEq(h, Items(h, h[x].slots[s])[i], Items(h, h[y].slots[s])[i])
    ELSE ValueEq(h, h[x].slots[s], h[y].slots[s])

\* C17: structural equality.  For any two config groups a and b, a == b is
\* true if and only if a and b are of the same concrete kind and every declared
\* field of a compares equal to the same field of b, lists and tuples compared
\* element by element.
C17_StructuralEquality ==
    \A a, b \in Configs(heap) :
        ConfigEq(heap, a, b) <=>
            /\ heap[a].cls = heap[b].cls
            /\ \A s \in SlotSet(heap[a].cls) : FieldEqual(heap, a, b, s)

\* the entries of to_dict(a), in order
Entries(h, a) == to_dict(h, a)[2]
\* to_dict(a) has one entry per declared field, in declaration order, each
\* keyed by the name of its slot without the leading underscore
OneEntryPerField(h, a) ==
    /\ TypeOf(to_dict(h, a)) = "dict"
    /\ Len(Entries(h, a)) = Len(SlotsOf(h[a].cls))
    /\ \A i \in DOMAIN SlotsOf(h[a].cls) :
          "_" \o Entries(h, a)[i][1] = SlotsOf(h[a].cls)[i]
\* a theme was converted by the last operation: save and from_dict(to_dict())
Converted(op) == op.op = "save" \/ (op.op = "from_dict" /\ op.arg = None)
\* the operation left the theme it was called on and all it holds as they were
SourceUnchanged ==
    [][Converted(last') =>
          \A i \in Reach(heap, {vars[last'.self]}) :
              i \in DOMAIN heap' /\ heap'[i] = heap[i]]_allvars

\* C18, as stated: to_dict of a config group has exactly one entry per declared
\* field, keyed by the slot name without its underscore, in declaration order,
\* that holds the current value of the field, or the to_dict of the value when
\* the value is a config group; and to_dict changes no field.
C18_ToDictValueOrGroup ==
    /\ [](\A a \in Configs(heap) :
            /\ OneEntryPerField(heap, a)
            /\ \A i \in DOMAIN SlotsOf(heap[a].cls) :
                  LET value == heap[a].slots[SlotsOf(heap[a].cls)[i]] IN
                  Entries(heap, a)[i][2] =
                      IF ClassOf(heap, value) \in ConfigClasses
                      THEN to_dict(heap, value[2]) ELSE value)
    /\ SourceUnchanged

\* C18, amended: as above, but the entry of a field whose value is a colour
\* holds the dict of the colour, as the entry of a nested group holds the
\* dict of the group.
C18_ToDict ==
    /\ [](\A a \in Configs(heap) :
            /\ OneEntryPerField(heap, a)
            /\ \A i \in DOMAIN SlotsOf(heap[a].cls) :
                  LET value == heap[a].slots[SlotsOf(heap[a].cls)[i]] IN
                  Entries(heap, a)[i][2] =
                      IF ClassOf(heap, value) \in ConfigClasses
                      THEN to_dict(heap, value[2])
                      ELSE IF TypeOf(value) = "Color" THEN RGBADict(value[2])
                      ELSE value)
    /\ SourceUnchanged

\* a theme was saved: its dict has an entry per field, and the entry of font
\* is the dict of the font, one entry per field of the font
C18_Witness ==
    /\ last.op = "save" /\ last.exc = NoExc
    /\ Len(Entries(heap, vars[last.self])) = Len(DefaultThemeSlots)
    /\ Lookup(to_dict(heap, vars[last.self]), "font")
          = to_dict(heap, LastTheme.slots._font[2])
    /\ Keys(Lookup(to_dict(heap, vars[last.self]), "font")) = Properties("_Font")

(***************************************************************************)
(* The properties of from_dict and of indexed access, checked under        *)
(* SpecSet.                                                                *)
(***************************************************************************)
\* the key names a declared field of the class: the name of the field, of
\* its slot, or of its deprecated alias
NamesField(cls, k) == k \in Properties(cls) \cup SlotSet(cls) \cup Aliases(cls)
\* the fields of the class that no key of the dict names
AbsentFields(cls, d) ==
    {f \in Properties(cls) :
        /\ {f, SlotName(f)} \cap Keys(d) = {}
        /\ f = "anti_aliasing" => Aliases(cls) \cap Keys(d) = {}}
\* the field f of the object holds what it holds in a new instance of cls
HoldsDefault(h, e, cls, id, f) ==
    LET Same(n) == FieldEqual(n.h, id, n.id, SlotName(f)) IN Same(New(h, e, cls))

\* C19: from_dict.  On every config class, the root theme, the presets and the
\* leaf groups, from_dict raises when a key of the input names no declared
\* field of the class, so that no instance is returned and the key is neither
\* ignored nor stored; and in the instance it returns, every field that no key
\* of the input names holds its construction default.
C19_FromDictUnknownKeys ==
    (last.op = "from_dict" /\ last.arg # None) =>
        /\ (\E k \in Keys(last.arg) : ~NamesField(last.key, k)) => last.exc # NoExc
        /\ last.exc = NoExc =>
              /\ heap[vars.b].cls = last.key
              /\ heap[vars.b].dict = <<>>
              /\ \A f \in AbsentFields(last.key, last.arg) :
                    HoldsDefault(heap, env, last.key, vars.b, f)

\* the outcome of <path>.<key> = <expr> on the global theme in the state: the
\* heap afterwards and the exception raised
AttributeAssignment(path, key, expr) ==
    LET Set(v) == SetAttr(v.h, env, Resolve(v.h, vars.global_theme, path), key, v.val)
        Kept(r) == [h |-> Collect(r.h, Roots(vars)), exc |-> r.exc]
    IN Kept(Set(Eval(heap, env, vars, expr)))

\* C20: indexed access.  group[key] returns what the attribute key returns:
\* for a declared field the value the field holds, for the deprecated alias
\* the value of anti_aliasing, and the same error for any other key; and
\* group[key] = v has the outcome of the assignment group.key = v: the same
\* value stored (the same heap afterwards) and the same exception raised, the
\* field unchanged when it raises.
C20_IndexedAccess ==
    /\ [](\A a \in Configs(heap) :
            /\ \A k \in Properties(heap[a].cls) :
                  getitem(heap, a, k) = Ok(heap[a].slots[SlotName(k)])
            /\ \A k \in Aliases(heap[a].cls) :
                  getitem(heap, a, k) = Ok(heap[a].slots._anti_aliasing)
            /\ \A k \in {"bogus", "xy"} : getitem(heap, a, k) = GetAttr(heap, a, k))
    /\ [][last'.op = "setitem" =>
            /\ heap' = AttributeAssignment(last'.path, last'.key, last'.arg).h
            /\ last'.exc = AttributeAssignment(last'.path, last'.key, last'.arg).exc
            /\ last'.exc # NoExc =>
                  heap'[Resolve(heap, vars.global_theme, last'.path)]
                      = heap[Resolve(heap, vars.global_theme, last'.path)]]_allvars

\* theme['image_scale'] = 0 raised the ValueError of the setter and left the
\* field as it was
C20_Witness ==
    /\ last.op = "setitem" /\ last.path = <<>> /\ last.key = "image_scale"
    /\ last.arg = Num(0)
    /\ last.exc = "ValueError"
    /\ getitem(heap, vars.global_theme, "image_scale") = Ok(Num(1000))

\* C21: the set of field names of a config group is fixed at construction.  In
\* every reachable state every group, the instances of the presets included,
\* holds exactly the fields its class declares: no assignment, indexed
\* assignment or from_dict has added an attribute to it or removed one.
C21_FieldSetFixed ==
    \A a \in Configs(heap) :
        /\ DOMAIN heap[a].slots = SlotSet(heap[a].cls)
        /\ DOMAIN heap[a].dict = {}

(***************************************************************************)
(* Properties of Spec: the presets.                                        *)
(***************************************************************************)
\* the theme t holds the values the preset of key k is specified to have
HasPresetValues(h, t, k) ==
    CASE k = "dark" ->
            /\ h[t].slots._background = ColorObj("black")
            /\ h[h[t].slots._axes[2]].slots._x_color = ColorObj("tomato")
            /\ h[h[t].slots._axes[2]].slots._y_color = ColorObj("seagreen")
            /\ h[h[t].slots._axes[2]].slots._z_color = ColorObj("blue")
      [] k = "document" ->
            /\ h[t].slots._background = ColorObj("white")
            /\ h[t].slots._color = ColorObj("tan")
      [] k = "testing" ->
            /\ ClassOf(h, h[t].slots._window_size) = "list"
            /\ Items(h, h[t].slots._window_size) = <<Num(400000), Num(400000)>>
            /\ h[t].slots._return_cpos = Bool(FALSE)
      [] OTHER -> TRUE
\* the key of the preset a class implements
KeyOfClass(cls) ==
    CASE cls = "DarkTheme" -> "dark"
      [] cls = "DocumentTheme" -> "document"
      [] cls = "_TestingTheme" -> "testing"
      [] OTHER -> "other"

\* C22: preset values.  A freshly constructed dark theme has a black
\* background and the axis colours tomato, seagreen and blue, a document theme
\* a white background and a tan mesh colour, a testing theme the window size
\* [400, 400] and return_cpos False; and the global theme holds the same values
\* right after set_plot_theme with the key of the preset.
C22_PresetValues ==
    /\ last.op = "construct" =>
          HasPresetValues(heap, vars[last.self], KeyOfClass(last.key))
    /\ (last.op = "set_plot_theme" /\ TypeOf(last.arg) = "str"
          /\ last.arg[2] \in {"dark", "document", "testing"}) =>
          /\ last.exc = NoExc
          /\ HasPresetValues(heap, vars.global_theme, last.arg[2])

\* set_plot_theme('testing') gave the global theme the window size [400, 400]
C22_Witness ==
    /\ last.op = "set_plot_theme" /\ last.arg = Str("testing") /\ last.exc = NoExc
    /\ Items(heap, GlobalTheme.slots._window_size) = <<Num(400000), Num(400000)>>
    /\ GlobalTheme.slots._return_cpos = Bool(FALSE)

RECURSIVE Deep(_, _)
\* the value with every reference replaced by what it refers to: the contents
\* of a theme, a group, a list or a dict, whatever objects hold them
Deep(h, v) ==
    IF ~IsRef(v) THEN v
    ELSE IF h[v[2]].cls = "list"
    THEN <<"list", [i \in DOMAIN h[v[2]].items |-> Deep(h, h[v[2]].items[i])]>>
    ELSE IF h[v[2]].cls = "dict"
    THEN <<"dict", [i \in DOMAIN h[v[2]].items |->
                      <<h[v[2]].items[i][1], Deep(h, h[v[2]].items[i][2])>>]>>
    ELSE <<h[v[2]].cls, [s \in DOMAIN h[v[2]].slots |-> Deep(h, h[v[2]].slots[s])],
           h[v[2]].dict>>
\* the contents of the fields of the theme t
FieldContents(h, t) == [s \in SlotSet("DefaultTheme") |-> Deep(h, h[t].slots[s])]
\* the contents of the fields of cls() when nothing else was ever done
Recipe(e, cls) ==
    LET Of(n) == FieldContents(n.h, n.id) IN Of(NewTheme(<<>>, e, cls))

\* C23: presets are immutable recipes.  Whatever was done before to the global
\* theme or to a theme of the caller, after set_plot_theme(k), k a key of the
\* registry, every field of the global theme holds what the same field of a
\* preset k holds that is constructed before anything else was done; and a
\* theme that is constructed later holds the same as well.
C23_ImmutableRecipes ==
    /\ (last.op = "set_plot_theme" /\ TypeOf(last.arg) = "str"
          /\ last.arg[2] \in DOMAIN C5_Presets) =>
          /\ last.exc = NoExc
          /\ FieldContents(heap, vars.global_theme)
                = Recipe(env, C5_Presets[last.arg[2]])
    /\ last.op = "construct" =>
          FieldContents(heap, vars[last.self]) = Recipe(env, last.key)

\* the font size of the caller's theme was changed to 20, and set_plot_theme
\* then gave the global theme the font size 18 of the document preset
C23_Witness ==
    /\ last.op = "set_plot_theme" /\ last.arg = Str("document") /\ last.exc = NoExc
    /\ vars.a # 0
    /\ heap[heap[vars.a].slots._font[2]].slots._size = Num(20000)
    /\ heap[GlobalTheme.slots._font[2]].slots._size = Num(18000)

(***************************************************************************)
(* Properties of saving and loading, checked under SpecFile.               *)
(***************************************************************************)
\* the step reads back into a theme the file that the step before it saved
ReadBack ==
    /\ last.op = "save" /\ last.exc = NoExc
    /\ last'.op = "load_theme" /\ last'.arg = Str(last.key)

\* C24: save and load.  With matplotlib installed, save writes the to_dict of the theme without the entry
\* of before_close_callback and changes no field of the theme; and a theme
\* into which the file is read back by load_theme(filename) holds None in
\* before_close_callback and in every other field what the saved theme held.
C24_SaveAndLoad ==
    /\ [][(env.matplotlib /\ last'.op = "save") =>
            /\ last'.exc = NoExc
            /\ Untouched(last'.self)
            /\ files'[last'.key]
                  = JsonValue(heap, DelKey(to_dict(heap, vars[last'.self]),
                                           "before_close_callback"))
            /\ Keys(files'[last'.key])
                  = Properties("DefaultTheme") \ {"before_close_callback"}]_allvars
    /\ [][(env.matplotlib /\ ReadBack) =>
            /\ last'.exc = NoExc
            /\ heap'[vars'[last'.self]].slots._before_close_callback = None
            /\ \A s \in SlotSet("DefaultTheme") \ {"_before_close_callback"} :
                  Deep(heap', heap'[vars'[last'.self]].slots[s])
                      = Deep(heap, heap[vars[last.self]].slots[s])]_allvars

(***************************************************************************)
(* Properties of load_theme under a second thread, checked under           *)
(* SpecThreads.                                                            *)
(***************************************************************************)
\* the fields of theme t that hold what the same field of theme u holds
SameFields(h, t, u) ==
    {s \in SlotSet("DefaultTheme") : Deep(h, h[t].slots[s]) = Deep(h, h[u].slots[s])}

\* the first n names of the declaration order
Written(n) == {DefaultThemeSlots[i] : i \in 1..n}

\* C25: load_theme is not transactional.  Each turn of its loop writes one
\* field, the next one in declaration order, with the source's value and
\* leaves every other field as it was, whatever the second thread did in
\* between; until the second thread acts, the fields written so far hold the
\* source's values and the others still hold the values the target had
\* before the load; and a read by the second thread changes no field and
\* does not move the loop.
C25_LoadThemeNotTransactional ==
    /\ [][last'.op = "load_theme_step" =>
            /\ pc' = pc + 1
            /\ last'.key = DefaultThemeSlots[pc + 1]
            /\ last'.exc = NoExc
            /\ \A s \in SlotSet("DefaultTheme") :
                  Deep(heap', heap'[vars'.global_theme].slots[s])
                    = IF s = last'.key
                        THEN Deep(heap, heap[vars.a].slots[s])
                        ELSE Deep(heap, heap[vars.global_theme].slots[s])]_allvars
    /\ [](steps = 0 =>
            \A s \in SlotSet("DefaultTheme") :
                Deep(heap, GlobalTheme.slots[s])
                  = IF s \in Written(pc)
                      THEN Deep(heap, heap[vars.a].slots[s])
                      ELSE Recipe(env, "DefaultTheme")[s])
    /\ [][last'.op = "getattr" =>
            /\ pc' = pc
            /\ FieldContents(heap', vars'.global_theme)
                  = FieldContents(heap, vars.global_theme)]_allvars

\* the second thread reads the name 'dark' from the global theme while the
\* loop is between two writes: the background is the source's and the axes
\* colours are not
C25_Witness ==
    /\ last.op = "getattr" /\ last.key = "name" /\ last.arg = Str("dark")
    /\ pc = 2
    /\ {"_name", "_background"} \subseteq SameFields(heap, vars.global_theme, vars.a)
    /\ "_axes" \notin SameFields(heap, vars.global_theme, vars.a)

(***************************************************************************)
(* Properties of Spec: the presets against the default theme.              *)
(***************************************************************************)
\* the fields a preset's constructor assigns, a nested one as <<group, field>>
Overrides(cls) ==
    CASE cls = "DarkTheme" ->
           {<<"_name">>, <<"_background">>, <<"_cmap">>, <<"_font", "_color">>,
            <<"_show_edges">>, <<"_color">>, <<"_outline_color">>, <<"_edge_color">>,
            <<"_axes", "_x_color">>, <<"_axes", "_y_color">>, <<"_axes", "_z_color">>}
      [] cls = "ParaViewTheme" ->
           {<<"_name">>, <<"_background">>, <<"_cmap">>, <<"_font", "_family">>,
            <<"_font", "_label_size">>, <<"_font", "_color">>, <<"_show_edges">>,
            <<"_color">>, <<"_outline_color">>, <<"_edge_color">>,
            <<"_axes", "_x_color">>, <<"_axes", "_y_color">>, <<"_axes", "_z_color">>}
      [] cls \in {"DocumentTheme", "DocumentProTheme"} ->
           {<<"_name">>, <<"_background">>, <<"_cmap">>, <<"_font", "_size">>,
            <<"_font", "_title_size">>, <<"_font", "_label_size">>, <<"_font", "_color">>,
            <<"_show_edges">>, <<"_color">>, <<"_outline_color">>, <<"_edge_color">>,
            <<"_axes", "_x_color">>, <<"_axes", "_y_color">>, <<"_axes", "_z_color">>}
           \cup (IF cls = "DocumentTheme" THEN {} ELSE
                   {<<"_color_cycler">>, <<"_render_points_as_spheres">>,
                    <<"_anti_aliasing">>, <<"_multi_samples">>,
                    <<"_depth_peeling", "_number_of_peels">>,
                    <<"_depth_peeling", "_occlusion_ratio">>,
                    <<"_depth_peeling", "_enabled">>})
      [] cls = "_TestingTheme" ->
           {<<"_name">>, <<"_multi_samples">>, <<"_window_size">>, <<"_axes", "_show">>,
            <<"_return_cpos">>}
      [] OTHER -> {}

\* field contents f and g agree on every field outside the set `except`
AgreeOutside(f, g, except) ==
    \A s \in SlotSet("DefaultTheme") :
        \/ <<s>> \in except
        \/ f[s] = g[s]
        \/ /\ \E p \in except : Len(p) = 2 /\ p[1] = s
           /\ f[s][1] = g[s][1]
           /\ \A k \in DOMAIN f[s][2] : <<s, k>> \in except \/ f[s][2][k] = g[s][2][k]

\* what DocumentProTheme adds to DocumentTheme
ProOverrides == Overrides("DocumentProTheme") \ Overrides("DocumentTheme")

\* C26: a preset is the default theme plus its override list.  Every field
\* of a newly constructed preset that its constructor does not assign holds
\* what the same field of a new DefaultTheme holds, and a new
\* DocumentProTheme differs from a new DocumentTheme only in color_cycler,
\* render_points_as_spheres, anti_aliasing ('msaa'), multi_samples (2) and
\* depth_peeling (enabled, 4 peels, occlusion ratio 0).
C26_PresetIsDefaultPlusOverrides ==
    last.op = "construct" =>
        /\ AgreeOutside(FieldContents(heap, vars[last.self]),
                        Recipe(env, "DefaultTheme"), Overrides(last.key))
        /\ last.key = "DocumentProTheme" =>
              /\ AgreeOutside(FieldContents(heap, vars[last.self]),
                              Recipe(env, "DocumentTheme"), ProOverrides)
              /\ LastTheme.slots._anti_aliasing = Str("msaa")
              /\ LastTheme.slots._multi_samples = Num(2000)
              /\ LastTheme.slots._render_points_as_spheres = Bool(TRUE)
              /\ LastTheme.slots._color_cycler # Recipe(env, "DocumentTheme")._color_cycler
              /\ Deep(heap, LastTheme.slots._depth_peeling)[2]
                    = [_number_of_peels |-> Num(4000), _occlusion_ratio |-> Num(0),
                       _enabled |-> Bool(TRUE)]

\* a DocumentProTheme has been constructed: its name and font are
\* DocumentTheme's, its depth peeling is enabled
C26_Witness ==
    /\ last.op = "construct" /\ last.key = "DocumentProTheme"
    /\ LastTheme.slots._name = Str("document")
    /\ heap[LastTheme.slots._font[2]].slots._size = Num(18000)
    /\ heap[LastTheme.slots._depth_peeling[2]].slots._enabled = Bool(TRUE)

C28_PresetNameIsKey ==
    /\ last.op = "construct" =>
          \A k \in DOMAIN NativeThemes :
              NativeThemes[k] = last.key => LastTheme.slots._name = Str(k)
    /\ (last.op = "set_plot_theme" /\ TypeOf(last.arg) = "str"
          /\ last.arg[2] \in DOMAIN NativeThemes) =>
          /\ last.exc = NoExc
          /\ GlobalTheme.slots._name = last.arg

(***************************************************************************)
(* Properties of SpecSet: the round trip of a new group.                   *)
(***************************************************************************)
\* C29: for each of the lighting, depth peeling, silhouette, colorbar, axes,
\* font, slider style, slider and trame groups, from_dict applied to the
\* to_dict of a new instance succeeds and gives a group equal to that
\* instance.
C29_NewGroupRoundTrip ==
    last.op = "new_round_trip" =>
        /\ last.exc = NoExc
        /\ heap[vars.b].cls = last.key
        /\ ConfigEq(heap, vars.b, vars.a)

(***************************************************************************)
(* Properties of to_dict as a snapshot, checked under SpecDict.            *)
(***************************************************************************)
\* the contents of the mapping d, the objects it refers to included
SnapContents(h, d) ==
    IF d = None THEN None ELSE [i \in DOMAIN d[2] |-> <<d[2][i][1], Deep(h, d[2][i][2])>>]

\* C30: to_dict returns a snapshot that is independent of the theme.
\* Changing the returned mapping or a value inside it (the camera dict, the
\* window_size list) changes no field of the theme, and changing the theme
\* afterwards does not change a mapping returned earlier.
C30_ToDictSnapshot ==
    /\ [][last'.op = "dict_setitem" =>
            FieldContents(heap', vars'.global_theme)
              = FieldContents(heap, vars.global_theme)]_allvars
    /\ [][last'.op = "setattr" => SnapContents(heap', snap') = SnapContents(heap, snap)]_allvars

====
